---- MODULE Spec2Model ----
(***************************************************************************)
(* Model of boss-bot's command lifecycle: Command.run (lib/commands.js)    *)
(* wraps a handler's result (a value, an exception or a Promise) into the  *)
(* "loading message" protocol.  One invocation of run() is followed from   *)
(* the call to the settlement of the promise it returns.  Time is the      *)
(* millisecond clock read by new Date().getTime(); timers fire no earlier  *)
(* than their due instant and possibly later.                              *)
(***************************************************************************)
EXTENDS Integers, Sequences, FiniteSets, TLC

\* ---------------------------------------------------------------- bounds
MaxTicks == 4       \* number of times the clock advances in one behaviour
MaxDelay == 2       \* delays assigned through the setters are -1..MaxDelay

\* ------------------------------------------------------ program constants
DEFAULT_LOADING_DELAY == 250
DEFAULT_POST_LOADING_DELAY == 250

\* ------------------------------------------------------------ JS values
\* A JavaScript value a handler can produce: t is its typeof/shape, v its text.
Val(t, v) == [t |-> t, v |-> v]
NullV == Val("null", "")
UndefinedV == Val("undefined", "")
FalseV == Val("boolean", "false")
TrueV == Val("boolean", "true")
EmptyStringV == Val("string", "")
StringV == Val("string", "hello")
ArrayV == Val("array", "line1,line2")
PayloadV == Val("object", "content+embed")
ZeroV == Val("number", "0")
NumberV == Val("number", "7")

Results == {NullV, UndefinedV, FalseV, TrueV, EmptyStringV, StringV, ArrayV,
            PayloadV, ZeroV, NumberV}

\* !result
Falsy(r) == \/ r.t \in {"null", "undefined"}
            \/ r = FalseV
            \/ r = EmptyStringV
            \/ r = ZeroV

\* Values assigned to the loadingDelay / postLoadingDelay properties.
DelayInputs == [t : {"number"}, n : -1..MaxDelay]
                 \cup [t : {"boolean"}, n : {0, 1}]
                 \cup [t : {"undefined"}, n : {0}]

\* What runCommand does: returns a value, throws, or returns a Promise that
\* may carry a loadingMessage property (lm, "" when absent).
Handlers == [kind : {"value"}, r : Results, lm : {""}]
              \cup [kind : {"throws"}, r : {UndefinedV}, lm : {""}]
              \cup [kind : {"promise"}, r : {UndefinedV}, lm : {"", "Working..."}]

NoHandler == [kind |-> "none", r |-> UndefinedV, lm |-> ""]

\* A call on the transport: channel.send, message.edit, message.delete.
Call(op, target, content, at) ==
  [op |-> op, target |-> target, content |-> content, at |-> at]
NoCall == Call("none", "", UndefinedV, 0)

\* message.channel of each of the run() calls made while others are in flight
RunChannels == <<"channel1", "channel2">>
Invocations == DOMAIN RunChannels

\* the message channel.send(loading text) resolves to in each invocation
LoadingMessages == <<"loadingMessage1", "loadingMessage2">>

\* what each invocation's handler resolves to: its own text, or null
RunResults == <<"result1", "result2">>
ResultsIn(i) == {Val("string", RunResults[i]), NullV}

\* the closure variables of one run() call, the timers and promises they
\* refer to, and the promise returned, before the call
NoInvocation ==
  [state |-> "idle", runAt |-> 0, comp |-> "none", timeout |-> "null",
   loadTimer |-> "none", loadingSentAt |-> 0, loadSend |-> "none",
   loadingMessage |-> "null", haveFinalResult |-> FALSE,
   finalResult |-> UndefinedV, postTimer |-> "none", postDue |-> 0,
   runPromise |-> "none"]

VARIABLES
  now,               \* new Date().getTime()
  ticks,             \* how many times the clock has advanced
  _loadingDelay,     \* Command._loadingDelay
  _postLoadingDelay, \* Command._postLoadingDelay
  pc,                \* "idle" before run() is called, "running" after
  handler,           \* what runCommand did in this invocation
  runAt,             \* instant run() was called
  comp,              \* the handler's Promise: none, pending, resolved, rejected
  compValue,         \* value the handler's Promise resolved to
  compSettledAt,     \* instant it settled
  settledWhile,      \* what the loading protocol was doing when it settled
  timeout,           \* closure variable timeout: "null" or the timer's id
  loadTimer,         \* the loading timer itself: none, armed, cancelled, fired
  loadingSentAt,     \* closure variable loadingSentAt
  loadSend,          \* promise of the loading channel.send
  sendSettledAt,     \* instant it settled
  loadingMessage,    \* closure variable loadingMessage: "null" or the handle
  haveFinalResult,   \* closure variable haveFinalResult
  finalResult,       \* closure variable finalResult
  postTimer,         \* timer set by editLoadingMessage: none, armed, fired
  postDue,           \* instant that timer is due
  finalCall,         \* promise returned by _handleResult's transport call
  runPromise,        \* what run() returned and its state
  runReason,         \* rejection reason of the promise run() returned
  calls,             \* transport calls made so far, in order
  invocations        \* closure variables of each of several run() calls in flight

VARIABLES
  _cooldown,         \* Bot._cooldown, the global (per user) cooldown
  _channelCooldown,  \* Bot._channelCooldown
  _cooldowns,        \* Bot._cooldowns: Map from user or channel id to a time
  uncollected,       \* _cooldowns of a Bot given the same calls, less garbageCollect
  _commands,         \* Bot._commands: Map from lower-cased alias to command
  _prefix,           \* Bot._prefix
  _prefixMatcher,    \* Bot._prefixMatcher: which match function is installed
  _prefixFormatter,  \* Bot._prefixFormatter: which format function
  sensitivity,       \* sensitivity of the locale's search collator
  locale,            \* the "locale" configuration value, as getLocale gives it
  handled,           \* number of handleMessage calls so far
  lastMessage,       \* the message given to the last handleMessage call
  trace              \* what the last call of a Bot method did, in order

botVars == <<_cooldown, _channelCooldown, _cooldowns, uncollected, _commands, _prefix,
             _prefixMatcher, _prefixFormatter, sensitivity, locale, handled, lastMessage, trace>>

commandVars == <<_loadingDelay, _postLoadingDelay, pc, handler, runAt, comp,
          compValue, compSettledAt, settledWhile, timeout, loadTimer,
          loadingSentAt, loadSend, sendSettledAt, loadingMessage,
          haveFinalResult, finalResult, postTimer,
          postDue, finalCall, runPromise, runReason, calls, invocations>>

vars == <<now, ticks, commandVars, botVars>>

config == <<_loadingDelay, _postLoadingDelay>>
closure == <<timeout, loadingSentAt, loadingMessage, haveFinalResult, finalResult>>
history == <<handler, runAt, compValue, compSettledAt, settledWhile>>

\* the Command as constructed, with no invocation of run() yet
CommandInit ==
  /\ _loadingDelay = DEFAULT_LOADING_DELAY
  /\ _postLoadingDelay = DEFAULT_POST_LOADING_DELAY
  /\ pc = "idle"
  /\ handler = NoHandler
  /\ runAt = 0
  /\ comp = "none"
  /\ compValue = UndefinedV
  /\ compSettledAt = 0
  /\ settledWhile = ""
  /\ timeout = "null"
  /\ loadTimer = "none"
  /\ loadingSentAt = 0
  /\ loadSend = "none"
  /\ sendSettledAt = 0
  /\ loadingMessage = "null"
  /\ haveFinalResult = FALSE
  /\ finalResult = NullV
  /\ postTimer = "none"
  /\ postDue = 0
  /\ finalCall = "none"
  /\ runPromise = "none"
  /\ runReason = ""
  /\ calls = <<>>
  /\ invocations = [i \in Invocations |-> NoInvocation]

\* const MAX_GLOBAL_COOLDOWN
MAX_GLOBAL_COOLDOWN == 30 * 60 * 1000
\* the values the Bot constructor gives _cooldown and _channelCooldown
GLOBAL_COOLDOWN_DEFAULT == 2000
GLOBAL_CHANNEL_COOLDOWN_DEFAULT == 125

\* the text "bot", the default prefix
TextBot == <<"b", "o", "t">>

\* a Map with no entries
EmptyMap == [k \in {} |-> 0]

\* lastMessage before any message was handled
NoMessage ==
  [author |-> [id |-> "", bot |-> FALSE], channel |-> [id |-> "", type |-> ""],
   content |-> <<>>]

\* the Bot as constructed (default configuration)
BotFields ==
  /\ _cooldowns = EmptyMap
  /\ uncollected = EmptyMap
  /\ _commands = EmptyMap
  /\ _prefix = TextBot
  /\ _prefixMatcher = "PREFIX_WHOLE_WORD"
  /\ _prefixFormatter = "PREFIX_WHOLE_WORD"
  /\ handled = 0
  /\ lastMessage = NoMessage
  /\ trace = <<>>

\* the Bot constructed without a configuration: the two windows keep their
\* defaults
BotInit ==
  /\ _cooldown = GLOBAL_COOLDOWN_DEFAULT
  /\ _channelCooldown = GLOBAL_CHANNEL_COOLDOWN_DEFAULT
  /\ BotFields

\* windows a configuration can give: the constructor passes the configured
\* globalCooldown and globalChannelCooldown through the setters, which keep a
\* value from 0 to MAX_GLOBAL_COOLDOWN and otherwise leave the default
ConfiguredCooldowns == {GLOBAL_COOLDOWN_DEFAULT, 0, MAX_GLOBAL_COOLDOWN}
ConfiguredChannelCooldowns ==
  {GLOBAL_CHANNEL_COOLDOWN_DEFAULT, 0, MAX_GLOBAL_COOLDOWN}

\* the Bot constructed with a configuration
BotConfigured ==
  /\ _cooldown \in ConfiguredCooldowns
  /\ _channelCooldown \in ConfiguredChannelCooldowns
  /\ BotFields

Init ==
  /\ now = 0
  /\ ticks = 0
  /\ CommandInit
  /\ BotInit
  /\ sensitivity = "variant"
  /\ locale = "en"

\* ------------------------------------------------------------- setters
\* set loadingDelay(delay)
SetLoadingDelay(delay) ==
  /\ UNCHANGED <<botVars, invocations>>
  /\ pc = "idle"
  /\ _loadingDelay' = IF delay.t = "boolean" /\ delay.n = 0 THEN -1
                      ELSE IF delay.t = "number" THEN delay.n
                      ELSE _loadingDelay
  /\ UNCHANGED <<now, ticks, _postLoadingDelay, pc, comp, loadTimer, loadSend, sendSettledAt, postTimer,
                 postDue, finalCall, runPromise, runReason, calls>>
  /\ UNCHANGED <<closure, history>>

\* set postLoadingDelay(delay)
SetPostLoadingDelay(delay) ==
  /\ UNCHANGED <<botVars, invocations>>
  /\ pc = "idle"
  /\ _postLoadingDelay' = IF delay.t = "boolean" /\ delay.n = 0 THEN -1
                          ELSE IF delay.t = "number" THEN delay.n
                          ELSE _postLoadingDelay
  /\ UNCHANGED <<now, ticks, _loadingDelay, pc, comp, loadTimer, loadSend, sendSettledAt, postTimer,
                 postDue, finalCall, runPromise, runReason, calls>>
  /\ UNCHANGED <<closure, history>>

\* variant of _handleResult: a falsy result never deletes the loading message
HandleResult_noDelete(result, lm) ==
  IF Falsy(result) THEN NoCall
  ELSE IF result.t \in {"string", "array", "object"}
    THEN IF lm # "null" THEN Call("edit", lm, result, 0)
                        ELSE Call("send", "channel", result, 0)
  ELSE NoCall

\* variant of _handleResult: false is treated like the other falsy results
HandleResult_deleteOnFalse(result, lm) ==
  IF Falsy(result)
    THEN IF lm # "null" THEN Call("delete", lm, UndefinedV, 0) ELSE NoCall
  ELSE IF result.t \in {"string", "array", "object"}
    THEN IF lm # "null" THEN Call("edit", lm, result, 0)
                        ELSE Call("send", "channel", result, 0)
  ELSE NoCall

\* variant of _handleResult: a payload is always sent as a new message
HandleResult_payloadSend(result, lm) ==
  IF Falsy(result)
    THEN IF lm # "null" /\ result # FalseV
           THEN Call("delete", lm, UndefinedV, 0)
           ELSE NoCall
  ELSE IF result.t \in {"string", "array"}
    THEN IF lm # "null" THEN Call("edit", lm, result, 0)
                        ELSE Call("send", "channel", result, 0)
  ELSE IF result.t = "object"
    THEN Call("send", "channel", result, 0)
  ELSE NoCall

\* variant of _handleResult: without a loading message a falsy result is sent
HandleResult_sendFalsy(result, lm) ==
  IF Falsy(result)
    THEN IF lm # "null" /\ result # FalseV
           THEN Call("delete", lm, UndefinedV, 0)
           ELSE IF result # FalseV THEN Call("send", "channel", result, 0)
           ELSE NoCall
  ELSE IF result.t \in {"string", "array", "object"}
    THEN IF lm # "null" THEN Call("edit", lm, result, 0)
                        ELSE Call("send", "channel", result, 0)
  ELSE NoCall

\* ------------------------------------------------- Command._handleResult
\* The transport call _handleResult makes for a result, given the loading
\* message handle ("null" when there is none); NoCall when it makes none.
HandleResult(result, lm) ==
  IF Falsy(result)
    THEN IF lm # "null" /\ result # FalseV
           THEN Call("delete", lm, UndefinedV, 0)
           ELSE NoCall
  ELSE IF result.t \in {"string", "array"}
    THEN IF lm # "null" THEN Call("edit", lm, result, 0)
                        ELSE Call("send", "channel", result, 0)
  ELSE IF result.t = "object"
    THEN IF lm # "null" THEN Call("edit", lm, result, 0)
                        ELSE Call("send", "channel", result, 0)
  ELSE NoCall

\* Command._handleException: the exception rendered as a string that names
\* args[0] (here "test"); the markdown code quotes around the error are left out
HandleException == Val("string", "Exception in test: Error")

\* Command.getLoadingMessage
GetLoadingMessage == "Please wait, loading..."

\* result.loadingMessage ? result.loadingMessage : this.getLoadingMessage(...)
LoadingText(h) == Val("string", IF h.lm # "" THEN h.lm ELSE GetLoadingMessage)

\* variant: every result is treated as a Promise
IsPromise_always(h) == h.kind \in {"promise", "value", "throws"}

\* result instanceof Promise
IsPromise(h) == h.kind = "promise"

\* resolve(this._handleResult(result, message.channel, lm)) inside the
\* executor of the promise run() returns: the transport call is made, and the
\* returned promise follows it unless it is already settled.
Deliver(result, lm) ==
  LET c == HandleResult(result, lm) IN
  /\ calls' = IF c.op = "none" THEN calls
              ELSE Append(calls, [c EXCEPT !.at = now])
  /\ finalCall' = IF c.op = "none" THEN finalCall ELSE "pending"
  /\ runPromise' = IF runPromise # "pending" THEN runPromise
                   ELSE IF c.op = "none" THEN "resolved" ELSE "following"
  /\ UNCHANGED runReason

\* reject(ex) inside the executor: no effect once the promise is settled or
\* locked onto a transport promise.
Reject(why) ==
  /\ runPromise' = IF runPromise = "pending" THEN "rejected" ELSE runPromise
  /\ runReason' = IF runPromise = "pending" THEN why ELSE runReason

\* variant: the post-loading delay is left out
wanted_noDelay == loadingSentAt

\* loadingSentAt + this._postLoadingDelay
wanted == loadingSentAt + _postLoadingDelay

\* variant of editLoadingMessage: a result that is "too fast" is dropped
editLoadingMessage_drop(fr, lm) ==
  IF now < wanted
    THEN UNCHANGED <<postTimer, postDue, calls, finalCall, runPromise, runReason>>
    ELSE /\ Deliver(fr, lm)
         /\ UNCHANGED <<postTimer, postDue>>

\* variant of editLoadingMessage: the "too fast" branch is missing
editLoadingMessage_noWait(fr, lm) ==
  /\ Deliver(fr, lm)
  /\ UNCHANGED <<postTimer, postDue>>

\* the closure editLoadingMessage, called with the closure's final result and
\* loading message
editLoadingMessage(fr, lm) ==
  IF now < wanted
    THEN /\ postTimer' = "armed"
         /\ postDue' = now + (wanted - now)
         /\ UNCHANGED <<calls, finalCall, runPromise, runReason>>
    ELSE /\ Deliver(fr, lm)
         /\ UNCHANGED <<postTimer, postDue>>

\* variant of the try/catch around runCommand: the exception is not turned
\* into a result
RunCommand_uncaught(h) == IF h.kind = "throws" THEN UndefinedV ELSE h.r

\* try { result = this.runCommand(...) } catch (ex) { result =
\* this._handleException(args, ex) }: the result run() works with when it is
\* not a Promise
RunCommand(h) == IF h.kind = "throws" THEN HandleException ELSE h.r

\* ------------------------------------------------------------ Command.run
\* run(bot, args, message, line), with h what runCommand does
Run(h) ==
  /\ UNCHANGED <<botVars, invocations>>
  /\ pc = "idle"
  /\ pc' = "running"
  /\ handler' = h
  /\ runAt' = now
  /\ IF IsPromise(h)
       THEN /\ comp' = "pending"
            /\ runPromise' = "pending"
            /\ IF _loadingDelay >= 0
                 THEN timeout' = "timer" /\ loadTimer' = "armed"
                 ELSE UNCHANGED <<timeout, loadTimer>>
            /\ UNCHANGED <<calls, finalCall>>
       ELSE LET result == RunCommand(h)
                c == HandleResult(result, "null")
            IN /\ calls' = IF c.op = "none" THEN calls
                           ELSE Append(calls, [c EXCEPT !.at = now])
               /\ finalCall' = IF c.op = "none" THEN finalCall ELSE "pending"
               /\ runPromise' = IF c.op # "none" THEN "following"
                                ELSE IF Falsy(result) THEN "resolved"
                                ELSE "undefined"
               /\ UNCHANGED <<comp, timeout, loadTimer>>
  /\ UNCHANGED <<now, ticks, config, compValue, compSettledAt, settledWhile,
                 loadingSentAt, loadSend, sendSettledAt, loadingMessage, haveFinalResult,
                 finalResult, postTimer, postDue, runReason>>

\* the callback of the loading timer, due loadingDelay after run()
LoadingTimerFires ==
  /\ UNCHANGED <<botVars, invocations>>
  /\ loadTimer = "armed"
  /\ now >= runAt + _loadingDelay
  /\ loadTimer' = "fired"
  /\ timeout' = "null"
  /\ loadingSentAt' = now
  /\ calls' = Append(calls, Call("send", "channel", LoadingText(handler), now))
  /\ loadSend' = "pending"
  /\ UNCHANGED sendSettledAt
  /\ UNCHANGED <<now, ticks, config, pc, comp, history, loadingMessage,
                 haveFinalResult, finalResult, postTimer, postDue, finalCall,
                 runPromise, runReason>>

\* where the loading protocol stands (recorded when the computation settles)
Stage ==
  IF loadTimer = "armed" THEN "timerPending"
  ELSE IF loadSend = "pending" THEN "sendPending"
  ELSE IF loadSend = "resolved" THEN "sendDone"
  ELSE IF loadSend = "rejected" THEN "sendFailed"
  ELSE "noTimer"

\* variant of the result.then callback: a result that arrives while the
\* loading send is in flight is delivered at once, as a new message
ComputationResolves_eager(r) ==
  /\ UNCHANGED <<botVars, invocations>>
  /\ comp = "pending"
  /\ comp' = "resolved"
  /\ compValue' = r
  /\ compSettledAt' = now
  /\ settledWhile' = Stage
  /\ IF timeout # "null"
       THEN /\ loadTimer' = "cancelled"
            /\ Deliver(r, "null")
            /\ UNCHANGED <<haveFinalResult, finalResult, postTimer, postDue>>
       ELSE /\ haveFinalResult' = TRUE
            /\ finalResult' = r
            /\ IF loadingMessage # "null"
                 THEN editLoadingMessage(r, loadingMessage)
                 ELSE /\ Deliver(r, "null")
                      /\ UNCHANGED <<postTimer, postDue>>
            /\ UNCHANGED loadTimer
  /\ UNCHANGED <<now, ticks, config, pc, handler, runAt, timeout,
                 loadingSentAt, loadSend, sendSettledAt, loadingMessage>>

\* variant of the result.then callback: clearTimeout is missing
ComputationResolves_noClear(r) ==
  /\ UNCHANGED <<botVars, invocations>>
  /\ comp = "pending"
  /\ comp' = "resolved"
  /\ compValue' = r
  /\ compSettledAt' = now
  /\ settledWhile' = Stage
  /\ IF timeout # "null"
       THEN /\ Deliver(r, "null")
            /\ UNCHANGED <<haveFinalResult, finalResult, postTimer, postDue>>
       ELSE /\ haveFinalResult' = TRUE
            /\ finalResult' = r
            /\ IF loadingMessage # "null"
                 THEN editLoadingMessage(r, loadingMessage)
                 ELSE UNCHANGED <<postTimer, postDue, calls, finalCall,
                                  runPromise, runReason>>
  /\ UNCHANGED <<now, ticks, config, pc, handler, runAt, timeout, loadTimer,
                 loadingSentAt, loadSend, sendSettledAt, loadingMessage>>

\* result.then(r => ...): the handler's Promise resolves to r
ComputationResolves(r) ==
  /\ UNCHANGED <<botVars, invocations>>
  /\ comp = "pending"
  /\ comp' = "resolved"
  /\ compValue' = r
  /\ compSettledAt' = now
  /\ settledWhile' = Stage
  /\ IF timeout # "null"
       THEN /\ loadTimer' = "cancelled"
            /\ Deliver(r, "null")
            /\ UNCHANGED <<haveFinalResult, finalResult, postTimer, postDue>>
       ELSE /\ haveFinalResult' = TRUE
            /\ finalResult' = r
            /\ IF loadingMessage # "null"
                 THEN editLoadingMessage(r, loadingMessage)
                 ELSE UNCHANGED <<postTimer, postDue, calls, finalCall,
                                  runPromise, runReason>>
            /\ UNCHANGED loadTimer
  /\ UNCHANGED <<now, ticks, config, pc, handler, runAt, timeout,
                 loadingSentAt, loadSend, sendSettledAt, loadingMessage>>

\* variant of the catch callback: the loading message, when there is one, is
\* deleted before the rejection is passed on
ComputationRejects_cleanup ==
  /\ UNCHANGED <<botVars, invocations>>
  /\ comp = "pending"
  /\ comp' = "rejected"
  /\ compSettledAt' = now
  /\ settledWhile' = Stage
  /\ Reject("commandError")
  /\ calls' = IF loadingMessage # "null"
                THEN Append(calls, Call("delete", loadingMessage, UndefinedV, now))
                ELSE calls
  /\ UNCHANGED <<now, ticks, config, pc, handler, runAt, compValue, closure,
                 loadTimer, loadSend, sendSettledAt, postTimer, postDue, finalCall>>

\* result.then(...).catch(ex => reject(ex)): the handler's Promise rejects
ComputationRejects ==
  /\ UNCHANGED <<botVars, invocations>>
  /\ comp = "pending"
  /\ comp' = "rejected"
  /\ compSettledAt' = now
  /\ settledWhile' = Stage
  /\ Reject("commandError")
  /\ UNCHANGED <<now, ticks, config, pc, handler, runAt, compValue, closure,
                 loadTimer, loadSend, sendSettledAt, postTimer, postDue, finalCall, calls>>

\* variant of the loading send's callback: a result that arrived while the send
\* was in flight is not applied
LoadingSendResolves_forget ==
  /\ UNCHANGED <<botVars, invocations>>
  /\ loadSend = "pending"
  /\ loadSend' = "resolved"
  /\ sendSettledAt' = now
  /\ loadingMessage' = "loadingMessage"
  /\ UNCHANGED <<postTimer, postDue, calls, finalCall, runPromise, runReason>>
  /\ UNCHANGED <<now, ticks, config, pc, comp, history, timeout, loadTimer,
                 loadingSentAt, haveFinalResult, finalResult>>

\* channel.send(loading text).then(message => ...): the loading message exists
LoadingSendResolves ==
  /\ UNCHANGED <<botVars, invocations>>
  /\ loadSend = "pending"
  /\ loadSend' = "resolved"
  /\ sendSettledAt' = now
  /\ loadingMessage' = "loadingMessage"
  /\ IF haveFinalResult
       THEN editLoadingMessage(finalResult, "loadingMessage")
       ELSE UNCHANGED <<postTimer, postDue, calls, finalCall, runPromise,
                        runReason>>
  /\ UNCHANGED <<now, ticks, config, pc, comp, history, timeout, loadTimer,
                 loadingSentAt, haveFinalResult, finalResult>>

\* variant of the loading send's catch: the failure is swallowed and the final
\* result, once known, is sent as a new message
LoadingSendRejects_fallback ==
  /\ UNCHANGED <<botVars, invocations>>
  /\ loadSend = "pending"
  /\ loadSend' = "rejected"
  /\ sendSettledAt' = now
  /\ IF haveFinalResult
       THEN Deliver(finalResult, "null")
       ELSE UNCHANGED <<calls, finalCall, runPromise, runReason>>
  /\ UNCHANGED <<now, ticks, config, pc, comp, history, closure, loadTimer,
                 postTimer, postDue>>

\* channel.send(loading text) ... .catch(ex => reject(ex)): the send failed
LoadingSendRejects ==
  /\ UNCHANGED <<botVars, invocations>>
  /\ loadSend = "pending"
  /\ loadSend' = "rejected"
  /\ sendSettledAt' = now
  /\ Reject("sendError")
  /\ UNCHANGED <<now, ticks, config, pc, comp, history, closure, loadTimer,
                 postTimer, postDue, finalCall, calls>>

\* the callback of the timer set by editLoadingMessage
PostLoadingTimerFires ==
  /\ UNCHANGED <<botVars, invocations>>
  /\ postTimer = "armed"
  /\ now >= postDue
  /\ postTimer' = "fired"
  /\ Deliver(finalResult, loadingMessage)
  /\ UNCHANGED <<now, ticks, config, pc, comp, history, closure, loadTimer,
                 loadSend, sendSettledAt, postDue>>

\* the transport call made by _handleResult succeeds
FinalCallResolves ==
  /\ UNCHANGED <<botVars, invocations>>
  /\ finalCall = "pending"
  /\ finalCall' = "resolved"
  /\ runPromise' = IF runPromise = "following" THEN "resolved" ELSE runPromise
  /\ UNCHANGED <<now, ticks, config, pc, comp, history, closure, loadTimer,
                 loadSend, sendSettledAt, postTimer, postDue, runReason, calls>>

\* the transport call made by _handleResult fails
FinalCallRejects ==
  /\ UNCHANGED <<botVars, invocations>>
  /\ finalCall = "pending"
  /\ finalCall' = "rejected"
  /\ runPromise' = IF runPromise = "following" THEN "rejected" ELSE runPromise
  /\ runReason' = IF runPromise = "following" THEN "transportError"
                  ELSE runReason
  /\ UNCHANGED <<now, ticks, config, pc, comp, history, closure, loadTimer,
                 loadSend, sendSettledAt, postTimer, postDue, calls>>

\* ------------------------------------------------------------- the clock
\* instants at which a timer is due or the post-loading delay runs out
DueInstants ==
  (IF loadTimer = "armed" THEN {runAt + _loadingDelay} ELSE {})
    \cup (IF postTimer = "armed" THEN {postDue} ELSE {})
    \cup (IF loadTimer = "fired" /\ postTimer = "none" THEN {wanted} ELSE {})

\* the clock advances by a millisecond or to just before, at or just after a
\* due instant
NextInstants ==
  {now + 1} \cup {t \in UNION {{d - 1, d, d + 1} : d \in DueInstants} : t > now}

Tick ==
  /\ UNCHANGED <<botVars, invocations>>
  /\ ticks < MaxTicks
  /\ ticks' = ticks + 1
  /\ now' \in NextInstants
  /\ UNCHANGED <<config, pc, comp, history, closure, loadTimer, loadSend, sendSettledAt,
                 postTimer, postDue, finalCall, runPromise, runReason, calls>>

Next ==
  \/ \E d \in DelayInputs : SetLoadingDelay(d)
  \/ \E d \in DelayInputs : SetPostLoadingDelay(d)
  \/ \E h \in Handlers : Run(h)
  \/ LoadingTimerFires
  \/ \E r \in Results : ComputationResolves(r)
  \/ ComputationRejects
  \/ LoadingSendResolves
  \/ LoadingSendRejects
  \/ PostLoadingTimerFires
  \/ FinalCallResolves
  \/ FinalCallRejects
  \/ Tick

Spec == Init /\ [][Next]_vars

\* time passes until the next instant at which something is due
Advance ==
  /\ UNCHANGED <<botVars, invocations>>
  /\ \E d \in DueInstants : d > now
  /\ now' = CHOOSE d \in DueInstants :
               d > now /\ \A e \in DueInstants : e > now => d <= e
  /\ UNCHANGED <<ticks, config, pc, comp, history, closure, loadTimer, loadSend,
                 sendSettledAt, postTimer, postDue, finalCall, runPromise,
                 runReason, calls>>

\* the handler's Promise settles, one way or the other
ComputationSettles ==
  \/ \E r \in Results : ComputationResolves(r)
  \/ ComputationRejects

\* the loading send settles
LoadingSendSettles == LoadingSendResolves \/ LoadingSendRejects

\* the transport call of _handleResult settles
FinalCallSettles == FinalCallResolves \/ FinalCallRejects

NextLive ==
  \/ \E d \in DelayInputs : SetLoadingDelay(d)
  \/ \E d \in DelayInputs : SetPostLoadingDelay(d)
  \/ \E h \in Handlers : Run(h)
  \/ LoadingTimerFires
  \/ ComputationSettles
  \/ LoadingSendSettles
  \/ PostLoadingTimerFires
  \/ FinalCallSettles
  \/ Advance

\* time passes, a timer that is due runs its callback, and every Promise of
\* the handler and of the transport settles
Fairness ==
  /\ WF_vars(Advance)
  /\ WF_vars(LoadingTimerFires)
  /\ WF_vars(PostLoadingTimerFires)
  /\ WF_vars(ComputationSettles)
  /\ WF_vars(LoadingSendSettles)
  /\ WF_vars(FinalCallSettles)

SpecLive == Init /\ [][NextLive]_vars /\ Fairness

\* ------------------------------- several invocations of one Command in flight
\* Each call of run() on a handler's Promise creates its own closure; the
\* delays are fields of the Command and so are shared.

\* the variables of the part above, which follow one invocation
single == <<pc, comp, history, closure, loadTimer, loadSend, sendSettledAt,
            postTimer, postDue, finalCall, runPromise, runReason>>

\* the transport call this._handleResult(result, message.channel, lm) makes
\* in invocation i, if any
HandleResultIn(i, result, lm) ==
  LET c == HandleResult(result, lm) IN
  IF c.op = "none" THEN <<>>
  ELSE <<[c EXCEPT !.at = now,
                   !.target = IF c.op = "send" THEN RunChannels[i] ELSE @]>>

\* resolve(this._handleResult(...)) in the closure v: the promise run()
\* returned follows the transport call
Resolve(v, result, lm) ==
  [v EXCEPT !.runPromise =
     IF @ # "pending" THEN @
     ELSE IF HandleResult(result, lm).op = "none" THEN "resolved"
     ELSE "following"]

\* the closure editLoadingMessage of invocation i, run on its closure
\* variables v: the closure afterwards and the transport calls made
editLoadingMessageIn(i, v) ==
  IF now < v.loadingSentAt + _postLoadingDelay
    THEN <<[v EXCEPT !.postTimer = "armed",
                     !.postDue = v.loadingSentAt + _postLoadingDelay], <<>>>>
    ELSE <<Resolve(v, v.finalResult, v.loadingMessage),
           HandleResultIn(i, v.finalResult, v.loadingMessage)>>

\* run() is called for a message in RunChannels[i] and the handler returns a
\* Promise
RunIn(i) ==
  /\ invocations[i].state = "idle"
  /\ invocations' = [invocations EXCEPT ![i] =
       [@ EXCEPT !.state = "running", !.runAt = now, !.comp = "pending",
                 !.runPromise = "pending",
                 !.timeout = IF _loadingDelay >= 0 THEN "timer" ELSE @,
                 !.loadTimer = IF _loadingDelay >= 0 THEN "armed" ELSE @]]
  /\ UNCHANGED <<now, ticks, config, single, calls, botVars>>

\* the loading timer of invocation i
LoadingTimerFiresIn(i) ==
  /\ invocations[i].loadTimer = "armed"
  /\ now >= invocations[i].runAt + _loadingDelay
  /\ invocations' = [invocations EXCEPT ![i] =
       [@ EXCEPT !.loadTimer = "fired", !.timeout = "null",
                 !.loadingSentAt = now, !.loadSend = "pending"]]
  /\ calls' = Append(calls, Call("send", RunChannels[i],
                                 Val("string", GetLoadingMessage), now))
  /\ UNCHANGED <<now, ticks, config, single, botVars>>

\* the result.then callback of invocation i
ComputationResolvesIn(i, r) ==
  /\ invocations[i].comp = "pending"
  /\ LET v == [invocations[i] EXCEPT !.comp = "resolved"] IN
     IF v.timeout # "null"
       THEN /\ invocations' = [invocations EXCEPT ![i] =
                 Resolve([v EXCEPT !.loadTimer = "cancelled"], r, "null")]
            /\ calls' = calls \o HandleResultIn(i, r, "null")
       ELSE LET w == [v EXCEPT !.haveFinalResult = TRUE, !.finalResult = r]
                e == IF w.loadingMessage # "null"
                       THEN editLoadingMessageIn(i, w) ELSE <<w, <<>>>>
            IN /\ invocations' = [invocations EXCEPT ![i] = e[1]]
               /\ calls' = calls \o e[2]
  /\ UNCHANGED <<now, ticks, config, single, botVars>>

\* the catch callback of invocation i's computation
ComputationRejectsIn(i) ==
  /\ invocations[i].comp = "pending"
  /\ invocations' = [invocations EXCEPT ![i] =
       [@ EXCEPT !.comp = "rejected",
                 !.runPromise = IF @ = "pending" THEN "rejected" ELSE @]]
  /\ UNCHANGED <<now, ticks, config, single, calls, botVars>>

\* variant: loadingMessage is a field of the Command instead of a variable of
\* the closure, so that every invocation in flight sees the last one assigned
LoadingSendResolvesIn_onInstance(i) ==
  /\ invocations[i].loadSend = "pending"
  /\ LET shared == [j \in Invocations |->
                      [invocations[j] EXCEPT !.loadingMessage = LoadingMessages[i]]]
         v == [shared[i] EXCEPT !.loadSend = "resolved"]
         e == IF v.haveFinalResult
                THEN editLoadingMessageIn(i, v) ELSE <<v, <<>>>>
     IN /\ invocations' = [shared EXCEPT ![i] = e[1]]
        /\ calls' = calls \o e[2]
  /\ UNCHANGED <<now, ticks, config, single, botVars>>

\* the then callback of invocation i's loading send
LoadingSendResolvesIn(i) ==
  /\ invocations[i].loadSend = "pending"
  /\ LET v == [invocations[i] EXCEPT !.loadSend = "resolved",
                                     !.loadingMessage = LoadingMessages[i]]
         e == IF v.haveFinalResult
                THEN editLoadingMessageIn(i, v) ELSE <<v, <<>>>>
     IN /\ invocations' = [invocations EXCEPT ![i] = e[1]]
        /\ calls' = calls \o e[2]
  /\ UNCHANGED <<now, ticks, config, single, botVars>>

\* the catch callback of invocation i's loading send
LoadingSendRejectsIn(i) ==
  /\ invocations[i].loadSend = "pending"
  /\ invocations' = [invocations EXCEPT ![i] =
       [@ EXCEPT !.loadSend = "rejected",
                 !.runPromise = IF @ = "pending" THEN "rejected" ELSE @]]
  /\ UNCHANGED <<now, ticks, config, single, calls, botVars>>

\* the timer set by invocation i's editLoadingMessage
PostLoadingTimerFiresIn(i) ==
  /\ invocations[i].postTimer = "armed"
  /\ now >= invocations[i].postDue
  /\ LET v == [invocations[i] EXCEPT !.postTimer = "fired"] IN
     /\ invocations' = [invocations EXCEPT ![i] =
          Resolve(v, v.finalResult, v.loadingMessage)]
     /\ calls' = calls \o HandleResultIn(i, v.finalResult, v.loadingMessage)
  /\ UNCHANGED <<now, ticks, config, single, botVars>>

\* instants at which a timer of some invocation is due
DueInstantsIn ==
  UNION {(IF invocations[i].loadTimer = "armed"
            THEN {invocations[i].runAt + _loadingDelay} ELSE {})
         \cup (IF invocations[i].postTimer = "armed"
                 THEN {invocations[i].postDue} ELSE {})
         \cup (IF invocations[i].loadTimer = "fired"
                    /\ invocations[i].postTimer = "none"
                 THEN {invocations[i].loadingSentAt + _postLoadingDelay}
                 ELSE {}) : i \in Invocations}

\* the clock advances by a millisecond or to a due instant
TickIn ==
  /\ ticks < MaxTicks
  /\ ticks' = ticks + 1
  /\ now' \in {now + 1} \cup {d \in DueInstantsIn : d > now}
  /\ UNCHANGED <<config, single, calls, invocations, botVars>>

ConcurrentNext ==
  \/ \E i \in Invocations : RunIn(i)
  \/ \E i \in Invocations : LoadingTimerFiresIn(i)
  \/ \E i \in Invocations : \E r \in ResultsIn(i) : ComputationResolvesIn(i, r)
  \/ \E i \in Invocations : ComputationRejectsIn(i)
  \/ \E i \in Invocations : LoadingSendResolvesIn(i)
  \/ \E i \in Invocations : LoadingSendRejectsIn(i)
  \/ \E i \in Invocations : PostLoadingTimerFiresIn(i)
  \/ TickIn

SpecConcurrent == Init /\ [][ConcurrentNext]_vars

TypeOK ==
  /\ now \in Nat /\ ticks \in 0..MaxTicks
  /\ pc \in {"idle", "running"}
  /\ comp \in {"none", "pending", "resolved", "rejected"}
  /\ timeout \in {"null", "timer"}
  /\ loadTimer \in {"none", "armed", "cancelled", "fired"}
  /\ loadSend \in {"none", "pending", "resolved", "rejected"}
  /\ loadingMessage \in {"null", "loadingMessage"}
  /\ postTimer \in {"none", "armed", "fired"}
  /\ finalCall \in {"none", "pending", "resolved", "rejected"}
  /\ runPromise \in {"none", "undefined", "pending", "following", "resolved",
                     "rejected"}

\* ------------------------------------------------------------ properties
\* the send of the loading message, as logged by the loading timer's callback
LoadingCall == Call("send", "channel", LoadingText(handler), loadingSentAt)

\* a result _handleResult turns into message content
IsContent(r) == ~Falsy(r) /\ r.t \in {"string", "array", "object"}

\* the handler returned a Promise that has resolved
Resolved == handler.kind = "promise" /\ comp = "resolved"

\* C1: with loadingDelay >= 0, a handler Promise that resolves to a (non-empty)
\* string after the loading timer fired, and a loading send that succeeded:
\* the only send is the loading text, then the loading message is edited
\* exactly once with the final text (or the edit still waits on the
\* post-loading timer), never before runAt + loadingDelay + postLoadingDelay.
C1_SendThenEdit ==
  (/\ Resolved
   /\ _loadingDelay >= 0
   /\ compValue = StringV
   /\ settledWhile \in {"sendPending", "sendDone"}
   /\ loadSend = "resolved")
  => \/ postTimer = "armed" /\ calls = <<LoadingCall>>
     \/ /\ postTimer # "armed"
        /\ Len(calls) = 2
        /\ calls[1] = LoadingCall
        /\ calls[2].op = "edit"
        /\ calls[2].target = loadingMessage
        /\ calls[2].content = compValue
        /\ calls[2].at >= runAt + _loadingDelay + _postLoadingDelay

C1_Witness ==
  /\ Resolved
  /\ compValue = StringV
  /\ settledWhile = "sendDone"
  /\ runAt > 0
  /\ _loadingDelay > 0
  /\ _postLoadingDelay > 0
  /\ compSettledAt < runAt + _loadingDelay + _postLoadingDelay
  /\ Len(calls) = 2
  /\ calls[2].op = "edit"
  /\ calls[2].at = runAt + _loadingDelay + _postLoadingDelay

\* C2: when the handler's Promise resolves while the loading timer is still
\* pending, the timer is cancelled, no loading message is ever sent, nothing
\* is edited or deleted, and a content result is delivered as the one and only
\* channel.send (a result that is not content causes no call).
C2_ResolvedBeforeTimer ==
  (Resolved /\ settledWhile = "timerPending")
  => /\ loadTimer = "cancelled"
     /\ loadSend = "none"
     /\ loadingMessage = "null"
     /\ postTimer = "none"
     /\ calls = IF IsContent(compValue)
                  THEN <<Call("send", "channel", compValue, compSettledAt)>>
                  ELSE <<>>

C2_Witness ==
  /\ Resolved
  /\ settledWhile = "timerPending"
  /\ compValue = StringV
  /\ now > runAt + _loadingDelay
  /\ runPromise = "resolved"
  /\ Len(calls) = 1

\* C3: with a negative loadingDelay, a handler Promise that resolved to a
\* string has been delivered as exactly one channel.send and the promise
\* run() returned is no longer pending on the result.
C3_NegativeDelayDelivers ==
  (Resolved /\ _loadingDelay < 0 /\ compValue = StringV)
  => /\ calls = <<Call("send", "channel", compValue, compSettledAt)>>
     /\ runPromise # "pending"
     /\ loadSend = "none"

\* C4: when the handler's Promise settles (resolves or rejects) while the
\* loading timer is still pending, no loading message is sent afterwards.
C4_SettledCancelsTimer ==
  (comp \in {"resolved", "rejected"} /\ settledWhile = "timerPending")
  => loadSend = "none" /\ loadTimer # "fired"

\* C5: every edit or delete of the loading message is issued at or after
\* loadingSentAt + postLoadingDelay, loadingSentAt being the instant recorded
\* when the loading message was sent.
C5_PostLoadingDelay ==
  \A i \in DOMAIN calls :
    calls[i].op \in {"edit", "delete"}
      => /\ loadTimer = "fired"
         /\ calls[i].at >= loadingSentAt + _postLoadingDelay

C5_Witness ==
  /\ Resolved
  /\ settledWhile = "sendDone"
  /\ _postLoadingDelay > 0
  /\ compSettledAt < loadingSentAt + _postLoadingDelay
  /\ Len(calls) = 2
  /\ calls[2].op = "delete"
  /\ calls[2].at >= loadingSentAt + _postLoadingDelay

\* C6: when the handler's Promise resolves to content after the loading timer
\* fired and before the loading send completed, the result is kept
\* (haveFinalResult, finalResult) without any call, and once the send has
\* completed it is applied as exactly one edit of the loading message with
\* that content (possibly after the post-loading timer); no second send.
C6_ResultWaitsForSend ==
  (Resolved /\ settledWhile = "sendPending" /\ IsContent(compValue))
  => /\ haveFinalResult
     /\ finalResult = compValue
     /\ \/ /\ loadSend \in {"pending", "rejected"}
           /\ postTimer = "none"
           /\ calls = <<LoadingCall>>
        \/ /\ loadSend = "resolved"
           /\ postTimer = "armed"
           /\ calls = <<LoadingCall>>
        \/ /\ loadSend = "resolved"
           /\ postTimer # "armed"
           /\ Len(calls) = 2
           /\ calls = <<LoadingCall,
                        Call("edit", loadingMessage, compValue, calls[2].at)>>

C6_Witness ==
  /\ Resolved
  /\ settledWhile = "sendPending"
  /\ compValue = PayloadV
  /\ loadSend = "resolved"
  /\ Len(calls) = 2
  /\ calls[2].op = "edit"
  /\ runPromise = "resolved"

\* C7: a handler that synchronously returns a non-empty string s causes
\* exactly one channel.send(s), made during run(), no edit, no delete, no
\* loading message and no timer.
C7_SyncString ==
  (handler.kind = "value" /\ handler.r = StringV)
  => /\ calls = <<Call("send", "channel", handler.r, runAt)>>
     /\ timeout = "null"
     /\ loadTimer = "none"
     /\ loadSend = "none"
     /\ postTimer = "none"
     /\ comp = "none"

C7_Witness ==
  /\ handler.kind = "value"
  /\ handler.r = StringV
  /\ _loadingDelay >= 0
  /\ now > runAt + _loadingDelay
  /\ runPromise = "resolved"

\* C8: when the handler's Promise resolved to null or undefined and the
\* loading message was sent successfully, the loading message is deleted
\* exactly once (or the delete still waits on the post-loading timer), with no
\* edit and no further send.
C8_NullDeletes ==
  (Resolved /\ compValue \in {NullV, UndefinedV} /\ loadSend = "resolved")
  => \/ postTimer = "armed" /\ calls = <<LoadingCall>>
     \/ /\ postTimer # "armed"
        /\ Len(calls) = 2
        /\ calls = <<LoadingCall,
                     Call("delete", loadingMessage, UndefinedV, calls[2].at)>>

C8_Witness ==
  /\ Resolved
  /\ compValue = NullV
  /\ settledWhile = "sendPending"
  /\ loadSend = "resolved"
  /\ Len(calls) = 2
  /\ calls[2].op = "delete"
  /\ calls[2].target = "loadingMessage"

\* C9: a result that is exactly false is never delivered: returned
\* synchronously it causes no call at all, and resolved from a Promise it
\* causes no call besides a loading send made before, whether or not the
\* loading message exists.
C9_FalseIsNoOp ==
  /\ (handler.kind = "value" /\ handler.r = FalseV)
       => calls = <<>> /\ finalCall = "none"
  /\ (Resolved /\ compValue = FalseV)
       => /\ finalCall = "none"
          /\ calls = IF loadTimer = "fired" THEN <<LoadingCall>> ELSE <<>>

C9_Witness ==
  /\ Resolved
  /\ compValue = FalseV
  /\ loadingMessage # "null"
  /\ postTimer = "fired"
  /\ runPromise = "resolved"
  /\ calls = <<LoadingCall>>

\* C10: once the loading send has failed (and the handler's Promise has not
\* rejected), the promise run() returned is rejected with the send's failure
\* and the final result is not delivered: the loading send stays the only
\* call, whether the handler's Promise resolved before or after the failure.
C10_LoadingSendFailure ==
  (loadSend = "rejected" /\ comp # "rejected")
  => /\ runPromise = "rejected"
     /\ runReason = "sendError"
     /\ calls = <<LoadingCall>>
     /\ finalCall = "none"
     /\ postTimer = "none"

C10_Witness ==
  /\ loadSend = "rejected"
  /\ Resolved
  /\ compValue = StringV
  /\ settledWhile = "sendFailed"
  /\ compSettledAt > loadingSentAt

\* _handleResult has been called with the result of this invocation
HandleResultCalled ==
  \/ handler.kind \in {"value", "throws"}
  \/ Resolved /\ settledWhile = "timerPending"
  \/ Resolved /\ haveFinalResult /\ loadingMessage # "null" /\ postTimer # "armed"

\* the result of this invocation
TheResult == IF handler.kind = "promise" THEN compValue ELSE RunCommand(handler)

\* the calls that carry the result: all calls but the loading send
DeliveryCalls ==
  SelectSeq(calls, LAMBDA c : ~(loadTimer = "fired" /\ c = LoadingCall))

\* C11: when runCommand throws, run() returns normally: the exception has
\* become the diagnostic string of _handleException (it names args[0]), which
\* is delivered as exactly one channel.send made during run(); there is no
\* timer and no loading message.
C11_ThrowBecomesMessage ==
  handler.kind = "throws"
  => /\ calls = <<Call("send", "channel", HandleException, runAt)>>
     /\ runPromise \in {"following", "resolved", "rejected"}
     /\ comp = "none"
     /\ loadTimer = "none"
     /\ loadSend = "none"
     /\ postTimer = "none"

C11_Witness ==
  /\ handler.kind = "throws"
  /\ Len(calls) = 1
  /\ calls[1].content.t = "string"
  /\ runPromise = "rejected"
  /\ runReason = "transportError"

\* C12: once _handleResult has been called with a content result (string,
\* array, payload), exactly one call carries it: an edit of the loading
\* message with that content when the loading message handle exists,
\* otherwise a channel.send with that content.
C12_DeliverContent ==
  (HandleResultCalled /\ IsContent(TheResult))
  => /\ Len(DeliveryCalls) = 1
     /\ DeliveryCalls[1].content = TheResult
     /\ IF loadingMessage # "null"
          THEN /\ DeliveryCalls[1].op = "edit"
               /\ DeliveryCalls[1].target = loadingMessage
          ELSE /\ DeliveryCalls[1].op = "send"
               /\ DeliveryCalls[1].target = "channel"

C12_Witness ==
  /\ Resolved
  /\ compValue = PayloadV
  /\ settledWhile = "sendDone"
  /\ Len(calls) = 2
  /\ calls[2] = Call("edit", "loadingMessage", PayloadV, calls[2].at)
  /\ finalCall = "resolved"

\* C13: a result that is null or undefined, with no loading message sent
\* (returned synchronously, or resolved while the loading timer had not
\* fired), causes no transport call at all.
C13_NullWithoutLoading ==
  (/\ TheResult \in {NullV, UndefinedV}
   /\ \/ handler.kind = "value"
      \/ Resolved /\ loadTimer # "fired")
  => /\ calls = <<>>
     /\ finalCall = "none"
     /\ loadSend = "none"

C13_Witness ==
  /\ Resolved
  /\ compValue = NullV
  /\ settledWhile = "timerPending"
  /\ now > compSettledAt
  /\ runPromise = "resolved"
  /\ calls = <<>>

\* =========================================================================
\* Bot (lib/bot.js): message intake, cooldowns, addressing and dispatch.
\* Text is a sequence of one-character strings.
\* =========================================================================

\* ---------------------------------------------------------------- bounds
MaxMessages == 2

\* clock steps taken between the messages
MaxBotTicks == 2

\* ------------------------------------------------------------------ text
\* the characters matched by \s
WhiteSpace == {" ", "\t"}

TextRoll == <<"r", "o", "l", "l">>

\* message contents
MsgBotRoll == <<"b", "o", "t", " ", "r", "o", "l", "l", " ", "2", "d", "6">>
MsgPing == <<"p", "i", "n", "g">>
MsgBotPingMe == <<" ", "b", "o", "t", "\t", "p", "i", "n", "g", " ", " ", "m", "e", " ">>
MsgBot == <<"b", "o", "t">>
MsgUpper == <<"B", "O", "T", " ", "R", "o", "l", "l">>
MsgGlued == <<"b", "o", "t", "r", "o", "l", "l", " ", "2", "d", "6">>

Contents == {MsgBotRoll, MsgPing, MsgBotPingMe, MsgBot, MsgUpper, MsgGlued}

\* String.prototype.toLocaleLowerCase, one character
LowerChar(c) ==
  CASE c = "B" -> "b" [] c = "O" -> "o" [] c = "T" -> "t" [] c = "R" -> "r"
    [] c = "P" -> "p" [] c = "H" -> "h" [] c = "I" -> "i" [] c = "L" -> "l"
    [] OTHER -> c

\* the letter U+0131, LATIN SMALL LETTER DOTLESS I
DotlessI == "U+0131"

\* the lower case of one character in a locale: Turkish maps I to dotless i
LocaleLowerChar(c, loc) ==
  IF loc = "tr" /\ c = "I" THEN DotlessI ELSE LowerChar(c)

\* String.prototype.toLocaleLowerCase(locale)
ToLocaleLowerCase(text, loc) ==
  [i \in 1..Len(text) |-> LocaleLowerChar(text[i], loc)]

\* text.substring(n): the text from 0-based position n on
Substring(text, n) == SubSeq(text, n + 1, Len(text))

\* number of whitespace characters text starts with
RECURSIVE LeadingSpace(_)
LeadingSpace(text) ==
  IF text = <<>> \/ Head(text) \notin WhiteSpace THEN 0
  ELSE 1 + LeadingSpace(Tail(text))

\* number of non-whitespace characters text starts with
RECURSIVE LeadingWord(_)
LeadingWord(text) ==
  IF text = <<>> \/ Head(text) \in WhiteSpace THEN 0
  ELSE 1 + LeadingWord(Tail(text))

\* /^\s*(\S+)/.exec(message): ok is whether it matched, whole is m[0].length
\* and word is m[1]
ExecFirstWord(message) ==
  LET sp == LeadingSpace(message)
      n == LeadingWord(Substring(message, sp))
  IN [ok |-> n > 0, whole |-> sp + n, word |-> SubSeq(message, sp + 1, sp + n)]

\* /^\s*$/.test(command)
IsBlank(command) == LeadingSpace(command) = Len(command)

\* String.prototype.trim
RECURSIVE TrimEnd(_)
TrimEnd(text) ==
  IF text = <<>> \/ text[Len(text)] \notin WhiteSpace THEN text
  ELSE TrimEnd(SubSeq(text, 1, Len(text) - 1))

Trim(text) == TrimEnd(Substring(text, LeadingSpace(text)))

\* text.split(/\s+/) of a trimmed, non-empty text
RECURSIVE SplitWords(_)
SplitWords(text) ==
  LET n == LeadingWord(text)
      rest == Substring(text, n)
  IN IF rest = <<>> THEN <<text>>
     ELSE <<SubSeq(text, 1, n)>> \o SplitWords(Substring(rest, LeadingSpace(rest)))

\* a.localeCompare(b, locale, { usage: "search" }) === 0: the sensitivity of a
\* search collator is left to the locale data, so it is either "variant"
\* (exact) or "base" (case is ignored)
LocaleEquals(a, b, sens) ==
  IF sens = "base"
    THEN ToLocaleLowerCase(a, "en") = ToLocaleLowerCase(b, "en")
    ELSE a = b

\* the value null returned by a matcher
NoMatch == [matched |-> FALSE, rest |-> <<>>]
Match(rest) == [matched |-> TRUE, rest |-> rest]

\* PREFIX_WHOLE_WORD.match(prefix, message, locale)
PrefixWholeWordMatch(prefix, message, sens) ==
  LET m == ExecFirstWord(message) IN
  IF m.ok /\ LocaleEquals(m.word, prefix, sens)
    THEN Match(Substring(message, m.whole))
    ELSE NoMatch

\* PREFIX_WHOLE_WORD.format(prefix, command, locale)
PrefixWholeWordFormat(prefix, command) == prefix \o <<" ">> \o command

\* PREFIX_WITH_COMMAND.format(prefix, command, locale)
PrefixWithCommandFormat(prefix, command) == prefix \o command

\* PREFIX_WITH_COMMAND.match(prefix, message, locale)
PrefixWithCommandMatch_afterToken(prefix, message, sens) ==
  LET m == ExecFirstWord(message) IN
  IF /\ m.ok
     /\ Len(m.word) >= Len(prefix)
     /\ LocaleEquals(SubSeq(m.word, 1, Len(prefix)), prefix, sens)
    THEN Match(Substring(message, m.whole))
    ELSE NoMatch

PrefixWithCommandMatch(prefix, message, sens) ==
  LET m == ExecFirstWord(message) IN
  IF /\ m.ok
     /\ Len(m.word) >= Len(prefix)
     /\ LocaleEquals(SubSeq(m.word, 1, Len(prefix)), prefix, sens)
    THEN Match(Substring(message, m.whole - Len(m.word) + Len(prefix)))
    ELSE NoMatch

\* Discord.escapeMarkdown (discord.js): markdown characters get a backslash
MarkdownChars == {"\\", "*", "_", "~"}
RECURSIVE EscapeMarkdown(_)
EscapeMarkdown(text) ==
  IF text = <<>> THEN <<>>
  ELSE (IF Head(text) \in MarkdownChars THEN <<"\\", Head(text)>>
        ELSE <<Head(text)>>) \o EscapeMarkdown(Tail(text))

\* ------------------------------------------------------------ Bot inputs
\* message.author: its id and whether it is a bot account
User1 == [id |-> "u1", bot |-> FALSE]
User2 == [id |-> "u2", bot |-> FALSE]
OtherBot == [id |-> "b1", bot |-> TRUE]
Authors == {User1, User2, OtherBot}

\* message.channel: its id and its type
TextChannel == [id |-> "c1", type |-> "text"]
DMChannel == [id |-> "d1", type |-> "dm"]
CLIChannel == [id |-> "k1", type |-> "cli"]
GroupChannel == [id |-> "g1", type |-> "group"]
Channels == {TextChannel, DMChannel, CLIChannel, GroupChannel}

\* the messages of the cooldown specification: every author, two channels
CooldownMessages ==
  [author : Authors, channel : {TextChannel, DMChannel},
   content : {MsgBotRoll, MsgPing}]

\* the messages of the records specification: two users in two channels; ids
\* are snowflakes, never the same even across object types
RecordMessages ==
  [author : {User1, User2}, channel : {TextChannel, DMChannel},
   content : {MsgBotRoll}]

\* the messages of the dispatch specification: every channel type and text
DispatchMessages ==
  [author : {User1, OtherBot}, channel : Channels, content : Contents]

\* values assigned to globalCooldown / globalChannelCooldown
CooldownInputs ==
  [t : {"number"}, n : {-1, 0, 1, 1000, MAX_GLOBAL_COOLDOWN - 1,
                        MAX_GLOBAL_COOLDOWN, MAX_GLOBAL_COOLDOWN + 1}]
    \cup [t : {"undefined"}, n : {0}]

\* command objects given to addCommand: id is the object, name its name
CmdRoll == [id |-> "rollCommand", name |-> TextRoll]

\* a second command, and the names and alias lists of the registry
\* specification
TextHi == <<"h", "i">>
CmdHi == [id |-> "hiCommand", name |-> TextHi]
RegistryCommands == {CmdRoll, CmdHi}
RegistryAliases == {<<>>, << <<"H", "I">> >>, << <<"H", "i">>, TextRoll >>}
RegistryNames == {TextHi, <<"H", "I">>, <<"H", "i">>, TextRoll,
                  <<"R", "O", "L", "L">>}

\* values of the "locale" configuration: the default and Turkish
Locales == {"en", "tr"}

\* alias lists given to addCommand (none, or one alias in capitals)
AliasLists == {<<>>, << <<"R", "o", "l", "l">> >>}

\* one thing a call did: a method or hook that was called (ev), with the
\* text, argument list, command object and number it was given
Ev(ev, text, args, cmd, n) ==
  [ev |-> ev, text |-> text, args |-> args, cmd |-> cmd, n |-> n]

\* Map.prototype.set
MapSet(m, k, v) == [x \in DOMAIN m \cup {k} |-> IF x = k THEN v ELSE m[x]]

\* ---------------------------------------------------------- Bot setters
\* set globalCooldown(cooldown); undefined converts to NaN, which makes
\* both comparisons false
SetGlobalCooldown_noUpper(cooldown) ==
  /\ _cooldown' = IF /\ cooldown.t # "undefined"
                     /\ cooldown.n >= 0
                    THEN cooldown.n ELSE _cooldown
  /\ trace' = <<Ev("set globalCooldown", <<>>, <<>>, cooldown.t, cooldown.n)>>
  /\ UNCHANGED <<now, ticks, commandVars, _channelCooldown, _cooldowns, uncollected,
                 _commands, _prefix, _prefixMatcher, _prefixFormatter, sensitivity, locale,
                 handled, lastMessage>>

SetGlobalCooldown(cooldown) ==
  /\ _cooldown' = IF /\ cooldown.t # "undefined"
                     /\ cooldown.n >= 0
                     /\ cooldown.n <= MAX_GLOBAL_COOLDOWN
                    THEN cooldown.n ELSE _cooldown
  /\ trace' = <<Ev("set globalCooldown", <<>>, <<>>, cooldown.t, cooldown.n)>>
  /\ UNCHANGED <<now, ticks, commandVars, _channelCooldown, _cooldowns, uncollected,
                 _commands, _prefix, _prefixMatcher, _prefixFormatter, sensitivity, locale,
                 handled, lastMessage>>

\* set globalChannelCooldown(cooldown)
SetGlobalChannelCooldown(cooldown) ==
  /\ _channelCooldown' = IF /\ cooldown.t # "undefined"
                            /\ cooldown.n >= 0
                            /\ cooldown.n <= MAX_GLOBAL_COOLDOWN
                           THEN cooldown.n ELSE _channelCooldown
  /\ trace' = <<Ev("set globalChannelCooldown", <<>>, <<>>, cooldown.t,
                   cooldown.n)>>
  /\ UNCHANGED <<now, ticks, commandVars, _cooldown, _cooldowns, uncollected, _commands,
                 _prefix, _prefixMatcher, _prefixFormatter, sensitivity, locale, handled,
                 lastMessage>>

\* setPrefixMatcher(matcher) with one of the two built-in matcher objects
SetPrefixMatcher(matcher) ==
  /\ _prefixMatcher' = matcher
  /\ _prefixFormatter' = matcher
  /\ UNCHANGED <<now, ticks, commandVars, _cooldown, _channelCooldown,
                 _cooldowns, uncollected, _commands, _prefix, sensitivity, locale, handled,
                 lastMessage, trace>>

\* the values setPrefixMatcher can be given: an object with its match and
\* format properties, a function, a string, null (typeof null is "object",
\* and reading its format property throws a TypeError before any test)
BuiltinMatchers == {"PREFIX_WHOLE_WORD", "PREFIX_WITH_COMMAND"}
MatcherObject(match, format) ==
  [t |-> "object", match |-> match, format |-> format, fn |-> "none"]
MatcherFunction(name) ==
  [t |-> "function", match |-> "undefined", format |-> "undefined", fn |-> name]
MatcherString ==
  [t |-> "string", match |-> "undefined", format |-> "undefined", fn |-> "none"]
MatcherNull ==
  [t |-> "null", match |-> "undefined", format |-> "undefined", fn |-> "none"]
MatcherValues ==
  {MatcherObject(b, b) : b \in BuiltinMatchers}
    \cup {MatcherObject("PREFIX_WHOLE_WORD", "undefined"),
          MatcherObject("undefined", "PREFIX_WITH_COMMAND")}
    \cup {MatcherFunction(b) : b \in BuiltinMatchers}
    \cup {MatcherString, MatcherNull}

\* the argument lists of a call: none, one or two of the values
MatcherArgLists ==
  {<<>>} \cup {<<v>> : v \in MatcherValues}
         \cup {<<v, w>> : v \in MatcherValues, w \in MatcherValues}

\* what the event of a call records of an argument
MatcherArg(v) == <<v.t, v.match, v.format, v.fn>>

\* the value as a function: its name, or "undefined" if it is not a function
AsFunction(v) == IF v.t = "function" THEN v.fn ELSE "undefined"

\* setPrefixMatcher(matcher, formatter): the checks, each of which throws,
\* and the two assignments that follow them
SetPrefixMatcherCall_assignEarly(args) ==
  LET n == Len(args)
      unpack == n = 1 /\ args[1].t = "object"
      early == n = 0 \/ (n = 1 /\ args[1].t # "object")
      matcher == IF early THEN "undefined"
                 ELSE IF unpack THEN args[1].match ELSE AsFunction(args[1])
      formatter == IF early THEN "undefined"
                   ELSE IF unpack THEN args[1].format ELSE AsFunction(args[2])
      throws == early \/ matcher \notin BuiltinMatchers
                      \/ formatter \notin BuiltinMatchers
  IN
  /\ _prefixMatcher' = IF matcher \in BuiltinMatchers THEN matcher
                        ELSE _prefixMatcher
  /\ _prefixFormatter' = IF throws THEN _prefixFormatter ELSE formatter
  /\ trace' = <<Ev("setPrefixMatcher", <<>>,
                   [i \in 1..n |-> MatcherArg(args[i])],
                   IF throws THEN "throws" ELSE "returns", n)>>
  /\ UNCHANGED <<now, ticks, commandVars, _cooldown, _channelCooldown,
                 _cooldowns, uncollected, _commands, _prefix, sensitivity, locale, handled,
                 lastMessage>>

SetPrefixMatcherCall(args) ==
  LET n == Len(args)
      unpack == n = 1 /\ args[1].t = "object"
      early == n = 0 \/ (n = 1 /\ args[1].t # "object")
      matcher == IF early THEN "undefined"
                 ELSE IF unpack THEN args[1].match ELSE AsFunction(args[1])
      formatter == IF early THEN "undefined"
                   ELSE IF unpack THEN args[1].format ELSE AsFunction(args[2])
      throws == early \/ matcher \notin BuiltinMatchers
                      \/ formatter \notin BuiltinMatchers
  IN
  /\ _prefixMatcher' = IF throws THEN _prefixMatcher ELSE matcher
  /\ _prefixFormatter' = IF throws THEN _prefixFormatter ELSE formatter
  /\ trace' = <<Ev("setPrefixMatcher", <<>>,
                   [i \in 1..n |-> MatcherArg(args[i])],
                   IF throws THEN "throws" ELSE "returns", n)>>
  /\ UNCHANGED <<now, ticks, commandVars, _cooldown, _channelCooldown,
                 _cooldowns, uncollected, _commands, _prefix, sensitivity, locale, handled,
                 lastMessage>>

\* ------------------------------------------------------------- registry
\* the for loop of addCommand: every alias, lower-cased, is bound to command
RECURSIVE BindAliases(_, _, _)
BindAliases(map, aliases, command) ==
  IF aliases = <<>> THEN map
  ELSE BindAliases(MapSet(map, ToLocaleLowerCase(Head(aliases), locale),
                          command.id),
                   Tail(aliases), command)

\* addCommand(command, ...aliases)
AddCommand_alsoName(command, aliases) ==
  /\ _commands' = BindAliases(_commands, <<command.name>> \o aliases, command)
  /\ trace' = <<Ev("addCommand", command.name, aliases, command.id,
                   Len(aliases) + 1)>>
  /\ UNCHANGED <<now, ticks, commandVars, _cooldown, _channelCooldown,
                 _cooldowns, uncollected, _prefix, _prefixMatcher, _prefixFormatter, sensitivity, locale,
                 handled, lastMessage>>

AddCommand(command, aliases) ==
  /\ _commands' = BindAliases(_commands,
                              IF aliases = <<>> THEN <<command.name>> ELSE aliases,
                              command)
  /\ trace' = <<Ev("addCommand", command.name, aliases, command.id,
                   Len(aliases) + 1)>>
  /\ UNCHANGED <<now, ticks, commandVars, _cooldown, _channelCooldown,
                 _cooldowns, uncollected, _prefix, _prefixMatcher, _prefixFormatter, sensitivity, locale,
                 handled, lastMessage>>

\* findCommand(command): the bound command object, "undefined" when none
FindCommand(command) ==
  LET key == ToLocaleLowerCase(command, locale) IN
  IF key \in DOMAIN _commands THEN _commands[key] ELSE "undefined"

\* a call of findCommand(command) from outside the dispatcher
FindCommandCall(command) ==
  /\ trace' = <<Ev("findCommand", command, <<>>, FindCommand(command), 0)>>
  /\ UNCHANGED <<now, ticks, commandVars, _cooldown, _channelCooldown,
                 _cooldowns, uncollected, _commands, _prefix, _prefixMatcher, _prefixFormatter, sensitivity,
                 locale, handled, lastMessage>>

\* the arguments of a matcher: every text up to MaxTextLen characters over a
\* letter in both cases, another letter and a blank, and three prefixes
MaxTextLen == 3
MatchAlphabet == {"t", "T", "a", " "}
MatchTexts == UNION {[1..n -> MatchAlphabet] : n \in 0..MaxTextLen}
MatchPrefixes == {<<"t">>, <<"T">>, <<"t", "a">>}

\* a call of PREFIX_WHOLE_WORD.match(prefix, message, locale): the event holds
\* the arguments and the value returned, null or a string
WholeWordMatchCall(prefix, message) ==
  LET res == PrefixWholeWordMatch(prefix, message, sensitivity) IN
  /\ trace' = <<Ev("PREFIX_WHOLE_WORD.match", message, <<prefix, res.rest>>,
                   IF res.matched THEN "string" ELSE "null", 0)>>
  /\ UNCHANGED <<now, ticks, commandVars, _cooldown, _channelCooldown,
                 _cooldowns, uncollected, _commands, _prefix, _prefixMatcher, _prefixFormatter, sensitivity,
                 locale, handled, lastMessage>>

\* a call of PREFIX_WITH_COMMAND.match(prefix, message, locale)
WithCommandMatchCall(prefix, message) ==
  LET res == PrefixWithCommandMatch(prefix, message, sensitivity) IN
  /\ trace' = <<Ev("PREFIX_WITH_COMMAND.match", message, <<prefix, res.rest>>,
                   IF res.matched THEN "string" ELSE "null", 0)>>
  /\ UNCHANGED <<now, ticks, commandVars, _cooldown, _channelCooldown,
                 _cooldowns, uncollected, _commands, _prefix, _prefixMatcher, _prefixFormatter, sensitivity,
                 locale, handled, lastMessage>>

\* ------------------------------------------------------------- dispatch
\* this._prefixMatcher(this._prefix, message.content, locale)
PrefixMatch(content) ==
  IF _prefixMatcher = "PREFIX_WHOLE_WORD"
    THEN PrefixWholeWordMatch(_prefix, content, sensitivity)
    ELSE PrefixWithCommandMatch(_prefix, content, sensitivity)

\* formatCommand(command): this._prefixFormatter(this._prefix, command, locale)
FormatCommand(command) ==
  IF _prefixFormatter = "PREFIX_WHOLE_WORD"
    THEN PrefixWholeWordFormat(_prefix, command)
    ELSE PrefixWithCommandFormat(_prefix, command)

\* a prefix a configuration or the prefix setter can give: any string, also
\* the empty one and one of two words
FormatPrefixes == MatchPrefixes \cup {<<>>, <<"t", " ", "a">>}

\* formatCommand(command), and the installed matcher applied to what it gave
FormatThenMatch(command) ==
  LET formatted == FormatCommand(command)
      res == PrefixMatch(formatted)
  IN
  /\ trace' = <<Ev("formatCommand", command, <<formatted>>, "string", 0),
                Ev("_prefixMatcher", formatted, <<res.rest>>,
                   IF res.matched THEN "string" ELSE "null", 0)>>
  /\ UNCHANGED <<now, ticks, commandVars, _cooldown, _channelCooldown,
                 _cooldowns, uncollected, _commands, _prefix, _prefixMatcher,
                 _prefixFormatter, sensitivity, locale, handled, lastMessage>>

\* the message sent by the default unknownCommand(command, args, message)
UnknownCommandNotice(command, args) ==
  Ev("send", EscapeMarkdown(command), <<>>, "Unknown command \"%s\".", 0)

\* what commandObj.run(this, args, message) does in handleCommand: it returns
\* a falsy value, returns a Promise, or throws.  handleCommand has no try
\* around the call, so a throw leaves handleCommand and handleMessage; a
\* returned Promise is given to _catch.
RunOutcomes == {"null", "promise", "throws"}

AfterRun(command, r) ==
  CASE r = "throws" -> <<Ev("throw", command, <<>>, "", 0)>>
    [] r = "promise" -> <<Ev("_catch", command, <<>>, "Error running %s:", 0)>>
    [] OTHER -> <<>>

\* handleCommand(command, message): what it calls, in order.  A run event
\* records the command object, the argument list and the number of arguments
\* run was called with.
HandleCommand_blankUnknown(command, r) ==
  <<Ev("handleCommand", command, <<>>, "", 0)>> \o
  IF IsBlank(command)
    THEN <<Ev("findCommand", command, <<>>, "", 0),
           Ev("unknownCommand", command, <<>>, "", 0),
           UnknownCommandNotice(command, <<>>),
           Ev("_catch", command, <<>>,
              "Error handling unknown command %s:", 0)>>
    ELSE LET args == SplitWords(Trim(command))
             commandObj == FindCommand(args[1])
         IN <<Ev("findCommand", args[1], <<>>, "", 0)>> \o
            IF commandObj # "undefined"
              THEN <<Ev("run", <<>>, args, commandObj, 3)>> \o
                   AfterRun(command, r)
              ELSE <<Ev("unknownCommand", command, args, "", 0),
                     UnknownCommandNotice(command, args),
                     Ev("_catch", command, <<>>,
                        "Error handling unknown command %s:", 0)>>

HandleCommand_tailArgs(command, r) ==
  <<Ev("handleCommand", command, <<>>, "", 0)>> \o
  IF IsBlank(command)
    THEN <<Ev("blankCommand", command, <<>>, "", 0)>>
    ELSE LET args == SplitWords(Trim(command))
             commandObj == FindCommand(args[1])
         IN <<Ev("findCommand", args[1], <<>>, "", 0)>> \o
            IF commandObj # "undefined"
              THEN <<Ev("run", <<>>, Tail(args), commandObj, 3)>> \o
                   AfterRun(command, r)
              ELSE <<Ev("unknownCommand", command, args, "", 0),
                     UnknownCommandNotice(command, args),
                     Ev("_catch", command, <<>>,
                        "Error handling unknown command %s:", 0)>>

HandleCommand(command, r) ==
  <<Ev("handleCommand", command, <<>>, "", 0)>> \o
  IF IsBlank(command)
    THEN <<Ev("blankCommand", command, <<>>, "", 0)>>
    ELSE LET args == SplitWords(Trim(command))
             commandObj == FindCommand(args[1])
         IN <<Ev("findCommand", args[1], <<>>, "", 0)>> \o
            IF commandObj # "undefined"
              THEN <<Ev("run", <<>>, args, commandObj, 3)>> \o
                   AfterRun(command, r)
              ELSE <<Ev("unknownCommand", command, args, "", 0),
                     UnknownCommandNotice(command, args),
                     Ev("_catch", command, <<>>,
                        "Error handling unknown command %s:", 0)>>

\* the part of handleMessage after the cooldown checks
Addressing_noFallback(m, r) ==
  LET content == PrefixMatch(m.content) IN
  IF m.channel.type \in {"dm", "cli", "text"}
    THEN IF content.matched THEN HandleCommand(content.rest, r) ELSE <<>>
  ELSE <<>>

Addressing(m, r) ==
  LET content == PrefixMatch(m.content) IN
  IF m.channel.type \in {"dm", "cli"}
    THEN HandleCommand(IF content.matched THEN content.rest ELSE m.content, r)
  ELSE IF m.channel.type = "text"
    THEN IF content.matched THEN HandleCommand(content.rest, r) ELSE <<>>
  ELSE <<>>

\* the tests handleMessage makes before it records anything: which of its
\* returns, if any, ends the call
CooldownCheck_sameInstant(m) ==
  IF m.author.bot THEN "bot"
  ELSE IF /\ m.author.id \in DOMAIN _cooldowns
          /\ _cooldowns[m.author.id] + _cooldown > now
          /\ _cooldowns[m.author.id] < now
    THEN "user"
  ELSE IF /\ m.channel.id \in DOMAIN _cooldowns
          /\ _cooldowns[m.channel.id] + _channelCooldown > now
          /\ _cooldowns[m.channel.id] < now
    THEN "channel"
  ELSE "accept"

CooldownCheck_channelFirst(m) ==
  IF m.author.bot THEN "bot"
  ELSE IF /\ m.channel.id \in DOMAIN _cooldowns
          /\ _cooldowns[m.channel.id] + _channelCooldown > now
    THEN "channel"
  ELSE IF /\ m.author.id \in DOMAIN _cooldowns
          /\ _cooldowns[m.author.id] + _cooldown > now
    THEN "user"
  ELSE "accept"

CooldownCheck_botsToo(m) ==
  IF /\ m.author.id \in DOMAIN _cooldowns
     /\ _cooldowns[m.author.id] + _cooldown > now
    THEN "user"
  ELSE IF /\ m.channel.id \in DOMAIN _cooldowns
          /\ _cooldowns[m.channel.id] + _channelCooldown > now
    THEN "channel"
  ELSE "accept"

CooldownCheck(m) ==
  IF m.author.bot THEN "bot"
  ELSE IF /\ m.author.id \in DOMAIN _cooldowns
          /\ _cooldowns[m.author.id] + _cooldown > now
    THEN "user"
  ELSE IF /\ m.channel.id \in DOMAIN _cooldowns
          /\ _cooldowns[m.channel.id] + _channelCooldown > now
    THEN "channel"
  ELSE "accept"

\* this._cooldowns when handleMessage returns: the two set calls are reached
\* only past both cooldown returns
CooldownsAfter_addressedOnly(m) ==
  IF /\ CooldownCheck(m) = "accept"
     /\ \/ m.channel.type \in {"dm", "cli"}
        \/ PrefixMatch(m.content).matched
    THEN MapSet(MapSet(_cooldowns, m.author.id, now), m.channel.id, now)
    ELSE _cooldowns

CooldownsAfter_touchAll(m) ==
  IF CooldownCheck(m) = "accept"
    THEN [k \in DOMAIN _cooldowns \cup {m.author.id, m.channel.id} |-> now]
    ELSE _cooldowns

CooldownsAfter_extend(m) ==
  IF CooldownCheck(m) = "accept"
    THEN MapSet(MapSet(_cooldowns, m.author.id, now), m.channel.id, now)
  ELSE IF CooldownCheck(m) = "user"
    THEN MapSet(_cooldowns, m.author.id, now)
  ELSE _cooldowns

CooldownsAfter_authorEarly(m) ==
  IF CooldownCheck(m) = "accept"
    THEN MapSet(MapSet(_cooldowns, m.author.id, now), m.channel.id, now)
  ELSE IF CooldownCheck(m) = "channel"
    THEN MapSet(_cooldowns, m.author.id, now)
  ELSE _cooldowns

CooldownsAfter(m) ==
  IF CooldownCheck(m) = "accept"
    THEN MapSet(MapSet(_cooldowns, m.author.id, now), m.channel.id, now)
    ELSE _cooldowns

\* what handleMessage calls, in order
Calls(m, r) ==
  CASE CooldownCheck(m) = "bot" -> <<>>
    [] CooldownCheck(m) = "user" ->
         <<Ev("messageOnGlobalCooldown", <<>>, <<>>, "",
              _cooldowns[m.author.id] + _cooldown)>>
    [] CooldownCheck(m) = "channel" ->
         <<Ev("messageOnGlobalChannelCooldown", <<>>, <<>>, "",
              _cooldowns[m.channel.id] + _channelCooldown)>>
    [] OTHER -> Addressing(m, r)

\* the cooldown records handleMessage leaves in the Bot that is never garbage
\* collected: the same tests and the same two set calls, on its own Map
UncollectedAfter(m) ==
  IF m.author.bot THEN uncollected
  ELSE IF /\ m.author.id \in DOMAIN uncollected
          /\ uncollected[m.author.id] + _cooldown > now
    THEN uncollected
  ELSE IF /\ m.channel.id \in DOMAIN uncollected
          /\ uncollected[m.channel.id] + _channelCooldown > now
    THEN uncollected
  ELSE MapSet(MapSet(uncollected, m.author.id, now), m.channel.id, now)

\* handleMessage(message)
HandleMessage(m, r) ==
  /\ handled < MaxMessages
  /\ handled' = handled + 1
  /\ lastMessage' = [author |-> m.author, channel |-> m.channel,
                     content |-> m.content]
  /\ _cooldowns' = CooldownsAfter(m)
  /\ uncollected' = UncollectedAfter(m)
  /\ trace' = Calls(m, r)
  /\ UNCHANGED <<now, ticks, commandVars, _cooldown, _channelCooldown,
                 _commands, _prefix, _prefixMatcher, _prefixFormatter, sensitivity, locale>>

\* the Promise handleCommand gave to _catch is the last thing in the trace
Pending == trace # <<>> /\ trace[Len(trace)].ev = "_catch"

\* the pending Promise rejects.  The one run returned reaches the handler
\* _catch attached, which calls handleError(error, where); the send of
\* unknownCommand has its own catch, which calls handleError and makes the
\* Promise given to _catch resolve.
PromiseRejects ==
  /\ Pending
  /\ trace' = Append(trace,
                 IF trace[Len(trace) - 1].ev = "send"
                   THEN Ev("handleError", trace[Len(trace)].text, <<>>,
                           "Unable to send message:", 0)
                   ELSE Ev("handleError", trace[Len(trace)].text, <<>>,
                           trace[Len(trace)].cmd, 0))
  /\ UNCHANGED <<now, ticks, commandVars, _cooldown, _channelCooldown,
                 _cooldowns, uncollected, _commands, _prefix, _prefixMatcher, _prefixFormatter, sensitivity, locale,
                 handled, lastMessage>>

\* the pending Promise resolves: no handler runs
PromiseResolves ==
  /\ Pending
  /\ trace' = Append(trace, Ev("resolved", trace[Len(trace)].text, <<>>, "", 0))
  /\ UNCHANGED <<now, ticks, commandVars, _cooldown, _channelCooldown,
                 _cooldowns, uncollected, _commands, _prefix, _prefixMatcher, _prefixFormatter, sensitivity, locale,
                 handled, lastMessage>>

\* garbageCollect()
GarbageCollect_byUserWindow ==
  LET deleteBefore == now - _cooldown IN
  /\ _cooldowns' = [k \in {x \in DOMAIN _cooldowns :
                              ~(_cooldowns[x] < deleteBefore)} |-> _cooldowns[k]]
  /\ trace' = <<Ev("garbageCollect", <<>>, <<>>, "", now)>>
  /\ UNCHANGED <<now, ticks, commandVars, uncollected, _cooldown, _channelCooldown,
                 _commands, _prefix, _prefixMatcher, _prefixFormatter, sensitivity, locale,
                 handled, lastMessage>>

GarbageCollect_atBoundary ==
  LET deleteBefore == now - MAX_GLOBAL_COOLDOWN IN
  /\ _cooldowns' = [k \in {x \in DOMAIN _cooldowns :
                              ~(_cooldowns[x] <= deleteBefore)} |-> _cooldowns[k]]
  /\ trace' = <<Ev("garbageCollect", <<>>, <<>>, "", now)>>
  /\ UNCHANGED <<now, ticks, commandVars, uncollected, _cooldown, _channelCooldown,
                 _commands, _prefix, _prefixMatcher, _prefixFormatter, sensitivity, locale,
                 handled, lastMessage>>

GarbageCollect ==
  LET deleteBefore == now - MAX_GLOBAL_COOLDOWN IN
  /\ _cooldowns' = [k \in {x \in DOMAIN _cooldowns :
                              ~(_cooldowns[x] < deleteBefore)} |-> _cooldowns[k]]
  /\ trace' = <<Ev("garbageCollect", <<>>, <<>>, "", now)>>
  /\ UNCHANGED <<now, ticks, commandVars, uncollected, _cooldown, _channelCooldown,
                 _commands, _prefix, _prefixMatcher, _prefixFormatter, sensitivity, locale,
                 handled, lastMessage>>

\* the clock advances by a millisecond or by one of the two cooldowns
BotTick ==
  /\ ticks < MaxBotTicks
  /\ ticks' = ticks + 1
  /\ \E d \in {1, _channelCooldown, _cooldown} : d > 0 /\ now' = now + d
  /\ UNCHANGED <<commandVars, botVars>>

\* the locale's search collator compares exactly or ignores case
BotStart ==
  /\ now = 0
  /\ ticks = 0
  /\ CommandInit
  /\ BotInit
  /\ sensitivity \in {"variant", "base"}
  /\ locale = "en"

\* a configured Bot; the locale's search collator compares exactly or
\* ignores case
ConfiguredStart ==
  /\ now = 0
  /\ ticks = 0
  /\ CommandInit
  /\ BotConfigured
  /\ sensitivity \in {"variant", "base"}
  /\ locale = "en"

\* cooldowns: a command is registered, messages arrive, time passes
CooldownNext ==
  \/ AddCommand(CmdRoll, <<>>)
  \/ \E m \in CooldownMessages, r \in RunOutcomes : HandleMessage(m, r)
  \/ BotTick

SpecCooldown == ConfiguredStart /\ [][CooldownNext]_vars

\* the two cooldown setters
SettersNext ==
  \/ \E c \in CooldownInputs : SetGlobalCooldown(c)
  \/ \E c \in CooldownInputs : SetGlobalChannelCooldown(c)

SpecSetters == BotStart /\ [][SettersNext]_vars

\* the cooldown records: messages arrive, time passes, garbageCollect runs
RecordsNext ==
  \/ \E m \in RecordMessages : HandleMessage(m, "null")
  \/ GarbageCollect
  \/ BotTick

SpecRecords == ConfiguredStart /\ [][RecordsNext]_vars

\* the two built-in matchers applied to every prefix and text
PrefixNext ==
  \/ \E p \in MatchPrefixes, t \in MatchTexts : WholeWordMatchCall(p, t)
  \/ \E p \in MatchPrefixes, t \in MatchTexts : WithCommandMatchCall(p, t)

SpecPrefix == BotStart /\ [][PrefixNext]_vars

\* setPrefixMatcher is called with every argument list
MatcherNext == \E args \in MatcherArgLists : SetPrefixMatcherCall(args)

SpecMatcher == BotStart /\ [][MatcherNext]_vars

\* windows assigned between messages: none, the ceiling, and one above it
WindowInputs == [t : {"number"}, n : {0, MAX_GLOBAL_COOLDOWN,
                                      MAX_GLOBAL_COOLDOWN + 1}]

\* a Bot constructed without a configuration
TransparentStart ==
  /\ now = 0
  /\ ticks = 0
  /\ CommandInit
  /\ BotInit
  /\ sensitivity = "variant"
  /\ locale = "en"

\* messages arrive, time passes, the two windows are assigned and
\* garbageCollect runs, in any order
TransparentNext ==
  \/ \E m \in RecordMessages : HandleMessage(m, "null")
  \/ \E c \in WindowInputs : SetGlobalCooldown(c)
  \/ \E c \in WindowInputs : SetGlobalChannelCooldown(c)
  \/ GarbageCollect
  \/ BotTick

SpecTransparent == TransparentStart /\ [][TransparentNext]_vars

\* a Bot whose configuration names a prefix
FormatStart ==
  /\ now = 0
  /\ ticks = 0
  /\ CommandInit
  /\ _cooldown = GLOBAL_COOLDOWN_DEFAULT
  /\ _channelCooldown = GLOBAL_CHANNEL_COOLDOWN_DEFAULT
  /\ _cooldowns = EmptyMap
  /\ uncollected = EmptyMap
  /\ _commands = EmptyMap
  /\ _prefix \in FormatPrefixes
  /\ _prefixMatcher = "PREFIX_WHOLE_WORD"
  /\ _prefixFormatter = "PREFIX_WHOLE_WORD"
  /\ handled = 0
  /\ lastMessage = NoMessage
  /\ trace = <<>>
  /\ sensitivity \in {"variant", "base"}
  /\ locale = "en"

\* a matcher object is installed; commands are formatted and matched again
FormatNext ==
  \/ \E m \in {"PREFIX_WHOLE_WORD", "PREFIX_WITH_COMMAND"} : SetPrefixMatcher(m)
  \/ \E c \in MatchTexts : FormatThenMatch(c)

SpecFormat == FormatStart /\ [][FormatNext]_vars

\* a Bot whose configuration names a locale
RegistryStart ==
  /\ now = 0
  /\ ticks = 0
  /\ CommandInit
  /\ BotInit
  /\ sensitivity = "variant"
  /\ locale \in Locales

\* the registry: commands are added and looked up
RegistryNext ==
  \/ \E c \in RegistryCommands, a \in RegistryAliases : AddCommand(c, a)
  \/ \E n \in RegistryNames : FindCommandCall(n)

SpecRegistry == RegistryStart /\ [][RegistryNext]_vars

\* dispatch: commands and a matcher are installed, messages arrive
DispatchNext ==
  \/ \E m \in {"PREFIX_WHOLE_WORD", "PREFIX_WITH_COMMAND"} : SetPrefixMatcher(m)
  \/ \E a \in AliasLists : AddCommand(CmdRoll, a)
  \/ \E m \in DispatchMessages, r \in RunOutcomes : HandleMessage(m, r)
  \/ PromiseRejects
  \/ PromiseResolves
  \/ BotTick

SpecDispatch == BotStart /\ [][DispatchNext]_vars

\* ------------------------------------------------------------ properties
\* a step of handleMessage
Handling == handled' = handled + 1

\* the record stored for id puts it under a cooldown of length window now
UnderCooldown(id, window) ==
  id \in DOMAIN _cooldowns /\ _cooldowns[id] + window > now

\* the events of the given kinds in a trace
EventsOf(tr, kinds) == {i \in 1..Len(tr) : tr[i].ev \in kinds}

Dispatched(tr) == EventsOf(tr, {"handleCommand"}) # {}

CooldownHooks == {"messageOnGlobalCooldown", "messageOnGlobalChannelCooldown"}

\* C14: a message of a non-bot author handled while its author (window
\* globalCooldown) or its channel (window globalChannelCooldown) has a stored
\* timestamp t with t + window > now is not dispatched and leaves that
\* timestamp equal to t; a message that finds neither under cooldown is
\* accepted (no cooldown hook; a dm message is dispatched) and records now
\* for both its author and its channel.
C14_CheckAndUpdate ==
  [][(Handling /\ ~lastMessage'.author.bot) =>
       LET a == lastMessage'.author.id
           c == lastMessage'.channel.id
           ua == UnderCooldown(a, _cooldown)
           uc == UnderCooldown(c, _channelCooldown)
       IN /\ ua => /\ ~Dispatched(trace')
                   /\ a \in DOMAIN _cooldowns'
                   /\ _cooldowns'[a] = _cooldowns[a]
          /\ uc => /\ ~Dispatched(trace')
                   /\ c \in DOMAIN _cooldowns'
                   /\ _cooldowns'[c] = _cooldowns[c]
          /\ (~ua /\ ~uc) =>
               /\ a \in DOMAIN _cooldowns' /\ _cooldowns'[a] = now
               /\ c \in DOMAIN _cooldowns' /\ _cooldowns'[c] = now
               /\ EventsOf(trace', CooldownHooks) = {}
               /\ lastMessage'.channel.type = "dm" => Dispatched(trace')
     ]_vars

\* a message was blocked by the user cooldown later than the stored instant,
\* which is still the one stored
C14_Witness ==
  /\ handled = 2
  /\ Len(trace) = 1
  /\ trace[1].ev = "messageOnGlobalCooldown"
  /\ lastMessage.author.id \in DOMAIN _cooldowns
  /\ _cooldowns[lastMessage.author.id] = 0
  /\ now > 0
  /\ ticks = 1

\* C15: a message blocked by either cooldown check changes no cooldown record
\* (the author's record too when only the channel check blocked), sends
\* nothing and dispatches no command; the records change only in the handling
\* of a message that passes both checks.
C15_BlockedChangesNothing ==
  [][Handling =>
       LET a == lastMessage'.author.id
           c == lastMessage'.channel.id
           ua == UnderCooldown(a, _cooldown)
           uc == UnderCooldown(c, _channelCooldown)
       IN /\ (~lastMessage'.author.bot /\ (ua \/ uc)) =>
               /\ _cooldowns' = _cooldowns
               /\ EventsOf(trace', {"send", "handleCommand", "findCommand",
                                    "run", "unknownCommand", "blankCommand"}) = {}
          /\ (_cooldowns' # _cooldowns) =>
               ~lastMessage'.author.bot /\ ~ua /\ ~uc
     ]_vars

\* only the channel check blocked: the author, who passed the user check,
\* still has no record
C15_Witness ==
  /\ Len(trace) = 1
  /\ trace[1].ev = "messageOnGlobalChannelCooldown"
  /\ lastMessage.author.id \notin DOMAIN _cooldowns
  /\ lastMessage.channel.id \in DOMAIN _cooldowns

\* C16: the user check comes first: under a user cooldown only
\* messageOnGlobalCooldown is invoked, with the author's stored timestamp +
\* globalCooldown, whatever the channel's record says; when the author passes
\* and the channel is under cooldown only messageOnGlobalChannelCooldown is
\* invoked, with the channel's stored timestamp + globalChannelCooldown.
C16_UserThenChannel ==
  [][(Handling /\ ~lastMessage'.author.bot) =>
       LET a == lastMessage'.author.id
           c == lastMessage'.channel.id
           ua == UnderCooldown(a, _cooldown)
           uc == UnderCooldown(c, _channelCooldown)
       IN /\ ua => /\ Len(trace') = 1
                   /\ trace'[1].ev = "messageOnGlobalCooldown"
                   /\ trace'[1].n = _cooldowns[a] + _cooldown
          /\ (~ua /\ uc) =>
                   /\ Len(trace') = 1
                   /\ trace'[1].ev = "messageOnGlobalChannelCooldown"
                   /\ trace'[1].n = _cooldowns[c] + _channelCooldown
     ]_vars

\* author and channel were both under cooldown and the user hook was the one
\* invoked
C16_Witness ==
  /\ Len(trace) = 1
  /\ trace[1].ev = "messageOnGlobalCooldown"
  /\ trace[1].n = _cooldowns[lastMessage.author.id] + _cooldown
  /\ lastMessage.channel.id \in DOMAIN _cooldowns
  /\ _cooldowns[lastMessage.channel.id] + _channelCooldown > now
  /\ _cooldowns[lastMessage.author.id] + _cooldown > now

\* C17: handleMessage on a message whose author is a bot changes no cooldown
\* record and calls nothing: no hook, no lookup, no run, no send, whatever
\* the records of its channel say.
C17_BotAuthorNoOp ==
  [][(Handling /\ lastMessage'.author.bot) =>
       /\ trace' = <<>>
       /\ _cooldowns' = _cooldowns
       /\ UNCHANGED <<now, ticks, commandVars, _cooldown, _channelCooldown,
                      _commands, _prefix, _prefixMatcher, _prefixFormatter, sensitivity, locale>>
     ]_vars

\* a bot wrote in a channel that is under cooldown, and nothing was called
C17_Witness ==
  /\ handled > 0
  /\ lastMessage.author.bot
  /\ trace = <<>>
  /\ lastMessage.channel.id \in DOMAIN _cooldowns
  /\ _cooldowns[lastMessage.channel.id] + _channelCooldown > now

\* the message passes both cooldown checks and its author is no bot
Accepted(m) ==
  /\ ~m.author.bot
  /\ ~UnderCooldown(m.author.id, _cooldown)
  /\ ~UnderCooldown(m.channel.id, _channelCooldown)

\* C18: for an accepted message in a channel of type dm or cli handleCommand
\* is called exactly once, with the prefix matcher's remainder if the prefix
\* matched and with the whole content otherwise; in a channel of type text it
\* is called iff the matcher returns a string, once, with that remainder.
C18_Addressing ==
  [][(Handling /\ Accepted(lastMessage')) =>
       LET m == lastMessage'
           content == PrefixMatch(m.content)
           hc == EventsOf(trace', {"handleCommand"})
       IN /\ m.channel.type \in {"dm", "cli"} =>
               /\ Cardinality(hc) = 1
               /\ \A i \in hc :
                    trace'[i].text = IF content.matched THEN content.rest
                                                        ELSE m.content
          /\ m.channel.type = "text" =>
               /\ (hc # {}) <=> content.matched
               /\ Cardinality(hc) <= 1
               /\ \A i \in hc : trace'[i].text = content.rest
     ]_vars

\* a direct message without the prefix was handed over whole
C18_Witness ==
  /\ lastMessage.channel.type = "dm"
  /\ lastMessage.content = MsgPing
  /\ Len(trace) > 0
  /\ trace[1].ev = "handleCommand"
  /\ trace[1].text = MsgPing

\* C19: for non-blank command text handleCommand looks up token 0 of the
\* trimmed text split on runs of whitespace and, if it resolves, calls that
\* command's run exactly once with the whole token list; with prefix "bot"
\* and the whole-word matcher, "bot roll 2d6" in a text channel runs the roll
\* command with ["roll", "2d6"].
C19_TokenizeLookupInvoke ==
  [][Handling =>
       LET finds == EventsOf(trace', {"findCommand"})
           runs == EventsOf(trace', {"run"})
       IN /\ \A i \in EventsOf(trace', {"handleCommand"}) :
               ~IsBlank(trace'[i].text) =>
                 LET args == SplitWords(Trim(trace'[i].text)) IN
                 /\ Cardinality(finds) = 1
                 /\ \A j \in finds : trace'[j].text = args[1]
                 /\ FindCommand(args[1]) # "undefined" =>
                      /\ Cardinality(runs) = 1
                      /\ \A j \in runs : /\ trace'[j].cmd = FindCommand(args[1])
                                         /\ trace'[j].args = args
          /\ ( /\ Accepted(lastMessage')
               /\ lastMessage'.content = MsgBotRoll
               /\ lastMessage'.channel.type = "text"
               /\ _prefixMatcher = "PREFIX_WHOLE_WORD"
               /\ TextRoll \in DOMAIN _commands )
             => /\ Cardinality(runs) = 1
                /\ \A j \in runs : /\ trace'[j].cmd = CmdRoll.id
                                   /\ trace'[j].args = <<TextRoll, <<"2", "d", "6">> >>
     ]_vars

\* "bot roll 2d6" in a text channel ran the roll command with its two tokens
C19_Witness ==
  /\ lastMessage.content = MsgBotRoll
  /\ lastMessage.channel.type = "text"
  /\ Len(trace) = 3
  /\ trace[3].ev = "run"
  /\ trace[3].cmd = CmdRoll.id
  /\ trace[3].args = <<TextRoll, <<"2", "d", "6">> >>

\* C20: when token 0 resolves to no registered command, no run is invoked
\* and exactly one notice is sent, Unknown command "<name>". with <name> the
\* (markdown-escaped) token 0 of the command text.
C20_UnknownNamesToken ==
  [][Handling =>
       \A i \in EventsOf(trace', {"handleCommand"}) :
         ~IsBlank(trace'[i].text) =>
           LET args == SplitWords(Trim(trace'[i].text))
               sends == EventsOf(trace', {"send"})
           IN FindCommand(args[1]) = "undefined" =>
                /\ EventsOf(trace', {"run"}) = {}
                /\ Cardinality(sends) = 1
                /\ \A j \in sends :
                     /\ trace'[j].cmd = "Unknown command \"%s\"."
                     /\ trace'[j].text = EscapeMarkdown(args[1])
     ]_vars

\* the text is empty or all whitespace
AllWhitespace(text) == \A i \in 1..Len(text) : text[i] \in {" ", "\t"}

\* C21: command text that is empty or all whitespace after prefix stripping
\* goes to the blankCommand hook only: findCommand is not consulted,
\* unknownCommand is not invoked, no command runs and nothing is sent.
C21_BlankCommandOnly ==
  (/\ trace # <<>>
   /\ trace[1].ev = "handleCommand"
   /\ AllWhitespace(trace[1].text))
  => /\ Len(trace) = 2
     /\ trace[2].ev = "blankCommand"
     /\ EventsOf(trace, {"findCommand", "unknownCommand", "run", "send"}) = {}

\* the prefix alone, in a text channel, reached blankCommand
C21_Witness ==
  /\ lastMessage.content = MsgBot
  /\ lastMessage.channel.type = "text"
  /\ Len(trace) = 2
  /\ trace[1].ev = "handleCommand"
  /\ trace[1].text = <<>>
  /\ trace[2].ev = "blankCommand"

\* C22: handleMessage never throws, whatever the command's run does (throws,
\* returns a Promise that rejects) and whichever send rejects, and every such
\* failure ends in handleError.
C22_NoFailureEscapes ==
  /\ EventsOf(trace, {"throw"}) = {}
  /\ \A i \in EventsOf(trace, {"handleError"}) :
       i > 1 /\ trace[i - 1].ev = "_catch"

\* C23: a resolved command is invoked as run(host, args, message, line): four
\* arguments, the fourth being the command text with the prefix removed.
C23_RunGetsLine ==
  \A i \in EventsOf(trace, {"run"}) :
    /\ trace[i].n = 4
    /\ trace[i].text = trace[1].text

\* the value assigned in a logged setter call lies in 0 .. 1 800 000
Storable(call) == call.cmd = "number" /\ call.n >= 0 /\ call.n <= 1800000

\* C26: both windows start at their defaults 2000 and 125 and always lie in
\* 0 .. 1 800 000; an assignment to globalCooldown or globalChannelCooldown
\* stores the value iff it lies in that range and otherwise (negative, above
\* the maximum, undefined) leaves the stored value as it was; neither setter
\* touches the other window.
C26_SettersKeepRange ==
  /\ _cooldown = 2000 /\ _channelCooldown = 125
  /\ [](_cooldown \in 0..1800000 /\ _channelCooldown \in 0..1800000)
  /\ [][(trace' # trace /\ trace' # <<>>) =>
          /\ trace'[1].ev = "set globalCooldown" =>
               /\ _cooldown' = IF Storable(trace'[1]) THEN trace'[1].n
                                                     ELSE _cooldown
               /\ _channelCooldown' = _channelCooldown
          /\ trace'[1].ev = "set globalChannelCooldown" =>
               /\ _channelCooldown' = IF Storable(trace'[1]) THEN trace'[1].n
                                                            ELSE _channelCooldown
               /\ _cooldown' = _cooldown
      ]_vars

\* the maximum was stored, and the value above it was then refused
C26_Witness ==
  /\ trace # <<>>
  /\ trace[1].ev = "set globalCooldown"
  /\ trace[1].n = 1800001
  /\ _cooldown = 1800000
  /\ _channelCooldown = 0

\* String.prototype.toUpperCase and toLowerCase, on the letters used here
UpperChar(c) ==
  CASE c = "h" -> "H" [] c = "i" -> "I" [] c = "r" -> "R" [] c = "o" -> "O"
    [] c = "l" -> "L" [] OTHER -> c

ToUpperCase(text) == [i \in 1..Len(text) |-> UpperChar(text[i])]
ToLowerCase(text) == [i \in 1..Len(text) |-> LowerChar(text[i])]

\* the aliases an addCommand call binds: its alias arguments, or the
\* command's name when it has none
Given(call) == IF call.n = 1 THEN <<call.text>> ELSE call.args

\* C24: right after addCommand bound a command under an alias A,
\* findCommand(A.toUpperCase()), findCommand(A.toLowerCase()) and
\* findCommand(A) all return that command, whatever the configured locale.
C24_LookupIgnoresCase ==
  (trace # <<>> /\ trace[1].ev = "addCommand") =>
    \A i \in DOMAIN Given(trace[1]) :
      LET A == Given(trace[1])[i] IN
      /\ FindCommand(A) = trace[1].cmd
      /\ FindCommand(ToUpperCase(A)) = trace[1].cmd
      /\ FindCommand(ToLowerCase(A)) = trace[1].cmd

\* C25: addCommand(command) binds exactly the lower-cased command.name, and
\* addCommand(command, a1..an) exactly the lower-cased a1..an and not the
\* name; the bound keys map to the new command, replacing what they mapped
\* to, and every other binding is as before.
C25_AddCommandBindsExactly ==
  [][(trace' # trace /\ trace' # <<>> /\ trace'[1].ev = "addCommand") =>
       LET call == trace'[1]
           keys == {ToLocaleLowerCase(Given(call)[i], locale) :
                      i \in DOMAIN Given(call)}
       IN /\ DOMAIN _commands' = DOMAIN _commands \cup keys
          /\ \A k \in keys : _commands'[k] = call.cmd
          /\ \A k \in DOMAIN _commands \ keys : _commands'[k] = _commands[k]
          /\ (locale = "en" /\ call.n = 2 /\ call.args = << <<"H", "I">> >>)
               => keys = {<<"h", "i">>}
          /\ (call.n = 1 /\ call.cmd = "rollCommand")
               => keys = {<<"r", "o", "l", "l">>}
     ]_vars

\* "hi" and "roll" were bound to the hi command in one call, and a later
\* call rebound "hi" alone to the roll command
C25_Witness ==
  /\ locale = "en"
  /\ trace # <<>>
  /\ trace[1].ev = "addCommand"
  /\ trace[1].cmd = "rollCommand"
  /\ trace[1].args = << <<"H", "I">> >>
  /\ DOMAIN _commands = {TextHi, TextRoll}
  /\ _commands[TextHi] = "rollCommand"
  /\ _commands[TextRoll] = "hiCommand"

\* C27: garbageCollect run at time now deletes exactly the cooldown entries
\* whose timestamp is older than now - 1 800 000 and leaves every other
\* entry, of a user or of a channel, with its timestamp.
C27_GarbageCollectExact ==
  [][(/\ trace' # <<>>
      /\ trace'[1].ev = "garbageCollect"
      /\ (trace' # trace \/ _cooldowns' # _cooldowns)) =>
       /\ DOMAIN _cooldowns' =
            {k \in DOMAIN _cooldowns : _cooldowns[k] >= now - 1800000}
       /\ \A k \in DOMAIN _cooldowns' : _cooldowns'[k] = _cooldowns[k]
     ]_vars

\* two messages were accepted thirty minutes apart, and a millisecond later
\* garbageCollect dropped the records of the first and kept that of the second
C27_Witness ==
  /\ trace # <<>>
  /\ trace[1].ev = "garbageCollect"
  /\ trace[1].n = 1800001
  /\ handled = 2
  /\ DOMAIN _cooldowns = {"u1", "d1"}
  /\ _cooldowns["u1"] = 1800000
  /\ _cooldowns["d1"] = 1800000

\* the record stored under id was created or overwritten in this step
Written(id) ==
  /\ id \in DOMAIN _cooldowns'
  /\ id \notin DOMAIN _cooldowns \/ _cooldowns'[id] # _cooldowns[id]

\* C28: the record consulted for an author is created or overwritten only by
\* accepted messages of that author, and the record consulted for a channel
\* only by accepted messages in that channel; a write for a channel never
\* touches the record of a user, nor the other way round.
C28_IndependentRecords ==
  [][Handling =>
       /\ \A u \in {User1.id, User2.id} :
            Written(u) => (lastMessage'.author.id = u /\ Accepted(lastMessage'))
       /\ \A c \in {TextChannel.id, DMChannel.id} :
            Written(c) => (lastMessage'.channel.id = c /\ Accepted(lastMessage'))
     ]_vars

\* both users and both channels hold a record, and the records of the second
\* message's user and channel are later than those of the first
C28_Witness ==
  /\ handled = 2
  /\ DOMAIN _cooldowns = {"u1", "u2", "c1", "d1"}
  /\ _cooldowns["u1"] = _cooldowns["c1"]
  /\ _cooldowns["u2"] = _cooldowns["d1"]
  /\ _cooldowns["u1"] < _cooldowns["u2"]

\* C29: of two messages of one author handled at the same instant or less
\* than a globalCooldown > 0 apart, at most one is accepted and dispatched:
\* the second finds the timestamp the first one recorded, whatever the
\* channels of the two.
C29_NoDoubleAccept ==
  [][(/\ Handling
      /\ handled = 1
      /\ lastMessage'.author = lastMessage.author
      /\ _cooldown > 0
      /\ lastMessage.author.id \in DOMAIN _cooldowns
      /\ now - _cooldowns[lastMessage.author.id] < _cooldown) =>
       /\ ~Dispatched(trace')
       /\ _cooldowns' = _cooldowns
     ]_vars

\* a second message of the author arrived in another channel at the instant
\* the first was accepted and dispatched, and was stopped
C29_Witness ==
  /\ handled = 2
  /\ _cooldown > 0
  /\ lastMessage.author.id \in DOMAIN _cooldowns
  /\ _cooldowns[lastMessage.author.id] = now
  /\ lastMessage.channel.id \notin DOMAIN _cooldowns
  /\ trace # <<>>
  /\ trace[1].ev = "messageOnGlobalCooldown"

\* the first whitespace-delimited token of text starts after sp characters
\* and is n characters long
FirstToken(text, sp, n) ==
  /\ n > 0
  /\ sp + n <= Len(text)
  /\ \A i \in 1..sp : text[i] \in WhiteSpace
  /\ \A i \in (sp + 1)..(sp + n) : text[i] \notin WhiteSpace
  /\ sp + n < Len(text) => text[sp + n + 1] \in WhiteSpace

\* the two texts are equal up to the case of their letters
CaseEqual(a, b) == ToLowerCase(a) = ToLowerCase(b)

\* C30: PREFIX_WHOLE_WORD.match(prefix, text) returns null iff text has no
\* first whitespace-delimited token or that token is not equal to prefix up
\* to case; otherwise it returns the suffix of text that follows the token,
\* the whitespace after the token included.
C30_WholeWordMatch ==
  (trace # <<>> /\ trace[1].ev = "PREFIX_WHOLE_WORD.match") =>
    LET text == trace[1].text
        prefix == trace[1].args[1]
        rest == trace[1].args[2]
        hits == {<<sp, n>> \in (0..Len(text)) \X (1..Len(text)) :
                   /\ FirstToken(text, sp, n)
                   /\ CaseEqual(SubSeq(text, sp + 1, sp + n), prefix)}
    IN /\ (trace[1].cmd = "null") <=> (hits = {})
       /\ \A h \in hits : rest = SubSeq(text, h[1] + h[2] + 1, Len(text))

C32_FormatInvertsMatch ==
  (/\ Len(trace) = 2
   /\ trace[1].ev = "formatCommand"
   /\ ~IsBlank(trace[1].text)) =>
     /\ trace[2].cmd = "string"
     /\ Trim(trace[2].args[1]) = Trim(trace[1].text)

\* C33: setPrefixMatcher throws when called with no argument, with a single
\* argument that is not an object, or when the matcher or the formatter it
\* resolved is not a function; whenever it throws, the installed matcher and
\* the installed formatter are both what they were.
C33_ThrowsAndKeepsPair ==
  [][(/\ trace' # <<>>
      /\ trace'[1].ev = "setPrefixMatcher"
      /\ \/ trace' # trace
         \/ _prefixMatcher' # _prefixMatcher
         \/ _prefixFormatter' # _prefixFormatter) =>
       LET call == trace'[1]
           a == call.args
           noArgument == call.n = 0
           nonObject == call.n = 1 /\ a[1][1] # "object"
           matcher == IF call.n = 1 THEN a[1][2] ELSE a[1][4]
           formatter == IF call.n = 1 THEN a[1][3] ELSE a[2][4]
           notFunction == /\ call.n >= 1
                          /\ ~nonObject
                          /\ \/ matcher \notin BuiltinMatchers
                             \/ formatter \notin BuiltinMatchers
       IN /\ (noArgument \/ nonObject \/ notFunction) => call.cmd = "throws"
          /\ call.cmd = "throws" =>
               /\ _prefixMatcher' = _prefixMatcher
               /\ _prefixFormatter' = _prefixFormatter
     ]_vars

\* with PREFIX_WITH_COMMAND installed, a call with an object that has a match
\* function and no format function threw, and the pair is still installed
C33_Witness ==
  /\ trace # <<>>
  /\ trace[1].ev = "setPrefixMatcher"
  /\ trace[1].args = <<<<"object", "PREFIX_WHOLE_WORD", "undefined", "none">>>>
  /\ trace[1].cmd = "throws"
  /\ _prefixMatcher = "PREFIX_WITH_COMMAND"
  /\ _prefixFormatter = "PREFIX_WITH_COMMAND"

\* C34: a loading message is edited or deleted only when at least
\* postLoadingDelay milliseconds have passed since it exists, that is since
\* its send completed, also when the send took longer than postLoadingDelay
\* and the computation had resolved meanwhile.
C34_DwellAfterSendCompletes ==
  [][(/\ Len(calls') = Len(calls) + 1
      /\ calls'[Len(calls')].op \in {"edit", "delete"}) =>
       /\ loadSend' = "resolved"
       /\ now' >= sendSettledAt' + _postLoadingDelay
     ]_vars

\* C35: a message of a non-bot author that passes both cooldown checks and is
\* not dispatched (a text channel, no prefix) still records now for its author
\* and its channel; a command the author sends less than globalCooldown
\* later is then stopped by the user cooldown and not dispatched.
C35_UnaddressedStartsCooldown ==
  [][Handling =>
       /\ (Accepted(lastMessage') /\ ~Dispatched(trace')) =>
            /\ lastMessage'.author.id \in DOMAIN _cooldowns'
            /\ lastMessage'.channel.id \in DOMAIN _cooldowns'
            /\ _cooldowns'[lastMessage'.author.id] = now
            /\ _cooldowns'[lastMessage'.channel.id] = now
       /\ ( /\ handled = 1
            /\ ~lastMessage.author.bot
            /\ lastMessage.channel.type = "text"
            /\ lastMessage.content = MsgPing
            /\ lastMessage'.author = lastMessage.author
            /\ lastMessage'.content = MsgBotRoll
            /\ _cooldown > 0
            /\ now < _cooldowns[lastMessage.author.id] + _cooldown) =>
              /\ ~Dispatched(trace')
              /\ trace'[1].ev = "messageOnGlobalCooldown"
     ]_vars

\* a message without the prefix was handled in a text channel: nothing was
\* called, and its author and its channel are under cooldown from now
C35_Witness ==
  /\ handled = 1
  /\ lastMessage.content = MsgPing
  /\ lastMessage.channel.type = "text"
  /\ ~lastMessage.author.bot
  /\ trace = <<>>
  /\ lastMessage.author.id \in DOMAIN _cooldowns
  /\ _cooldowns[lastMessage.author.id] = now
  /\ _cooldowns[lastMessage.channel.id] = now

\* what handleMessage decides for message m on the cooldown records map
Verdict(map, m) ==
  IF m.author.bot THEN "bot"
  ELSE IF m.author.id \in DOMAIN map /\ map[m.author.id] + _cooldown > now
    THEN "user"
  ELSE IF m.channel.id \in DOMAIN map /\ map[m.channel.id] + _channelCooldown > now
    THEN "channel"
  ELSE "accept"

\* C36: garbageCollect is transparent: whatever garbageCollect calls were
\* made among the handleMessage calls and the assignments of the two windows,
\* each message is accepted, stopped by the user cooldown or stopped by the
\* channel cooldown exactly as it is by the Bot that got the same calls
\* without any garbageCollect.
C36_GarbageCollectTransparent ==
  [][Handling =>
       LET m == lastMessage'
           userHook == trace' # <<>> /\ trace'[1].ev = "messageOnGlobalCooldown"
           channelHook == /\ trace' # <<>>
                          /\ trace'[1].ev = "messageOnGlobalChannelCooldown"
           accepted == ~m.author.bot /\ ~userHook /\ ~channelHook
           kept == Verdict(uncollected, m)
       IN /\ userHook <=> kept = "user"
          /\ channelHook <=> kept = "channel"
          /\ accepted <=> kept = "accept"
          /\ accepted => /\ _cooldowns'[m.author.id] = uncollected'[m.author.id]
                         /\ _cooldowns'[m.channel.id] = uncollected'[m.channel.id]
     ]_vars

\* garbageCollect dropped the records of the first message, and the second
\* message was then accepted and dispatched
C36_Witness ==
  /\ handled = 2
  /\ DOMAIN _cooldowns = {"u1", "d1"}
  /\ DOMAIN uncollected = {"u1", "d1", "u2", "c1"}
  /\ Dispatched(trace)

\* the sends of the loading text among the transport calls, and the other
\* calls, which are those _handleResult made
LoadingSends == {i \in 1..Len(calls) : /\ calls[i].op = "send"
                                       /\ calls[i].content = LoadingText(handler)}
ResultCalls == (1..Len(calls)) \ LoadingSends

\* this step runs the deliver-result step: the result.then callback on its
\* fast path or with the loading message at hand and the delay over, the
\* callback of the loading send with the result at hand and the delay over,
\* or the callback of the post-loading timer
DeliverStep ==
  \/ /\ comp = "pending" /\ comp' = "resolved"
     /\ \/ timeout # "null"
        \/ loadingMessage # "null" /\ now >= loadingSentAt + _postLoadingDelay
  \/ /\ loadSend = "pending" /\ loadSend' = "resolved"
     /\ haveFinalResult
     /\ now >= loadingSentAt + _postLoadingDelay
  \/ postTimer = "armed" /\ postTimer' = "fired"

\* the deliver-result step has run in this invocation
Delivered ==
  \/ comp = "resolved" /\ settledWhile = "timerPending"
  \/ postTimer = "fired"
  \/ finalCall # "none"
  \/ runPromise \in {"following", "resolved", "undefined"}

\* C37: in one invocation of run() on a handler that returned a Promise, in
\* every order of the loading timer, the computation and the loading send:
\* the deliver-result step runs at most once, at most one loading message is
\* sent, and once a loading message was sent the result is never delivered by
\* a send of its own, only by an edit or a delete of the loading message.
C37_DeliverOnce ==
  /\ []((pc = "running" /\ IsPromise(handler)) =>
          /\ Cardinality(LoadingSends) <= 1
          /\ Cardinality(ResultCalls) <= 1
          /\ LoadingSends # {} =>
               \A i \in ResultCalls : /\ calls[i].op \in {"edit", "delete"}
                                      /\ calls[i].target = "loadingMessage"
                                      /\ \A j \in LoadingSends : j < i)
  /\ [][(pc = "running" /\ IsPromise(handler) /\ DeliverStep) =>
          (~Delivered /\ Delivered')]_vars

\* the computation resolved while the loading send was in flight, the send
\* completed, and the loading message was edited with the result: two calls
C37_Witness ==
  /\ pc = "running"
  /\ IsPromise(handler)
  /\ settledWhile = "sendPending"
  /\ loadSend = "resolved"
  /\ Len(calls) = 2
  /\ calls[1] = LoadingCall
  /\ calls[2].op = "edit"
  /\ calls[2].target = "loadingMessage"

\* C38: with loadingDelay >= 0, when the handler's Promise settles and every
\* transport call settles, the promise run() returned on a handler's Promise
\* settles too: it is resolved or rejected in the end.
C38_RunSettles ==
  (pc = "running" /\ IsPromise(handler) /\ _loadingDelay >= 0)
    ~> (runPromise \in {"resolved", "rejected"})

\* the result came before the post-loading delay was over, the timer of
\* editLoadingMessage ran, the edit succeeded and run()'s promise resolved
C38_Witness ==
  /\ pc = "running"
  /\ IsPromise(handler)
  /\ _loadingDelay >= 0
  /\ postTimer = "fired"
  /\ finalCall = "resolved"
  /\ runPromise = "resolved"

\* C40: when the computation rejects after the loading message has been sent
\* (its send in flight or completed), the promise returned by run() is rejected
\* with the computation's error and the loading send stays the only transport
\* call of the invocation: the loading message is neither edited nor deleted.
C40_RejectLeavesLoading ==
  (comp = "rejected" /\ settledWhile \in {"sendPending", "sendDone"}) =>
     /\ runPromise = "rejected"
     /\ runReason = "commandError"
     /\ calls = <<LoadingCall>>
     /\ postTimer = "none"
     /\ finalCall = "none"

\* the computation rejected while the loading message was on display, and
\* time has passed since
C40_Witness ==
  /\ comp = "rejected"
  /\ settledWhile = "sendDone"
  /\ loadingMessage # "null"
  /\ now > compSettledAt

\* C39: with several run() calls of one Command in flight, in any
\* interleaving and completion order, the result an invocation's handler
\* resolved to goes to that invocation's own loading message or its own
\* channel only: a loading message is edited only with the result of the
\* invocation that sent it, deleted only when that invocation's result is
\* null, and a channel receives only its own invocation's result.
C39_InvocationsIsolated ==
  \A k \in 1..Len(calls) : \A i \in Invocations :
    LET c == calls[k] IN
    /\ c.content = Val("string", RunResults[i]) =>
         c.target \in {LoadingMessages[i], RunChannels[i]}
    /\ (c.op = "edit" /\ c.target = LoadingMessages[i]) =>
         /\ invocations[i].haveFinalResult
         /\ c.content = invocations[i].finalResult
    /\ (c.op = "delete" /\ c.target = LoadingMessages[i]) =>
         /\ invocations[i].haveFinalResult
         /\ invocations[i].finalResult = NullV

\* both invocations had their loading message on display at once; the second
\* completed first and its message was edited, then the first's was
C39_Witness ==
  /\ Len(calls) = 4
  /\ calls[1].target = RunChannels[1]
  /\ calls[2].target = RunChannels[2]
  /\ calls[3] = Call("edit", LoadingMessages[2], Val("string", RunResults[2]),
                     calls[3].at)
  /\ calls[4] = Call("edit", LoadingMessages[1], Val("string", RunResults[1]),
                     calls[4].at)
  /\ invocations[1].loadingSentAt <= invocations[2].loadingSentAt
  /\ calls[3].at >= invocations[1].loadingSentAt + _postLoadingDelay

====